---- MODULE Spec2Model ----
(***************************************************************************)
(* A model of github.com/bored-engineer/git-protocol-v2: the encoders      *)
(* (Append/Bytes) and decoders (Parse) of the protocol-v2 messages.        *)
(*                                                                         *)
(* A byte string is a sequence of one-character strings, so that the       *)
(* prefix, suffix and cut operations of the code act on the same bytes.    *)
(* A wire stream is the flat byte sequence, with the four hex digits of    *)
(* every pkt-line header written out.                                      *)
(***************************************************************************)
EXTENDS Integers, Sequences, FiniteSets, TLC

VARIABLES
    pair,   \* one Capability / CommandArgument call: Append, scan, Parse
    msg,    \* one CapabilityAdvertisement / CommandRequest encode and decode
    v,      \* the FetchResponse value handed to FetchResponse.Bytes
    buf,    \* the bytes FetchResponse.Bytes returned
    lst,    \* one Capabilities / CommandArguments Parse, then a Get and a Has
    ref,    \* one ListReferencesResponse encode, decode and Map
    par,    \* two FetchResponse.Parse calls running side by side
    enc,    \* one Append and one Bytes call of an entity
    input,  \* the units a server sends, before framing
    dec     \* one FetchResponse.Parse call: scanner, receiver, sinks, position

vars == <<pair, msg, v, buf, lst, ref, par, enc, input, dec>>

(***************************************************************************)
(* Bounds of the model.                                                    *)
(***************************************************************************)
MaxLineLen == 4     \* longest raw line handed to a pair's Parse
MaxFieldLen == 2    \* longest Key or Value handed to a pair's Append
MaxAdvUnits == 4    \* most units of a raw capability advertisement
MaxList == 2        \* most capabilities, and most arguments, of a CommandRequest
MaxPackUnits == 4   \* most units after the packfile header of a raw response
MaxSection == 1     \* most entries of a section of a FetchResponse value
MaxListUnits == 4   \* most units of a raw capability or argument list
MaxSectUnits == 4   \* most units of a raw fetch response
MaxAckUnits == 4    \* most units after the acknowledgments header of a raw response
MaxRefUnits == 3    \* most units of a raw ref listing
MaxRefs == 2        \* most references of a ListReferencesResponse value
MaxTermUnits == 4   \* most units of a message with a marker out of place
MaxParUnits == 2    \* most units after the first of a stream decoded next to another
MaxEncAttrs == 2    \* most attributes of a Reference to encode
MaxFullUnits == 4   \* most units of a raw response with sections and side-band units
MaxSinkUnits == 4   \* most units of a raw response decoded into sinks of every kind
MaxLiveUnits == 2   \* most units of a finite stream a Parse runs to its end on
MaxCliList == 2    \* most values of a list flag of the command line

(***************************************************************************)
(* Bytes.                                                                  *)
(***************************************************************************)
LF == "\n"
SP == " "
EQ == "="

\* Every byte string of at most n bytes over the alphabet A.
StringsUpTo(A, n) == UNION {[1..k -> A] : k \in 0..n}

\* bytes.IndexByte: the place of the first ch in s, 0 when there is none.
IndexByte(s, ch) ==
    IF \E i \in 1..Len(s) : s[i] = ch
    THEN CHOOSE i \in 1..Len(s) : s[i] = ch /\ \A j \in 1..(i - 1) : s[j] # ch
    ELSE 0

\* bytes.Cut(s, sep) for a one-byte separator.
Cut(s, ch) ==
    LET i == IndexByte(s, ch)
    IN  IF i = 0
        THEN [before |-> s, after |-> <<>>, found |-> FALSE]
        ELSE [before |-> SubSeq(s, 1, i - 1),
              after |-> SubSeq(s, i + 1, Len(s)),
              found |-> TRUE]

\* bytes.HasPrefix
HasPrefix(s, p) == Len(s) >= Len(p) /\ SubSeq(s, 1, Len(p)) = p

\* bytes.HasSuffix
HasSuffix(s, p) == Len(s) >= Len(p) /\ SubSeq(s, Len(s) - Len(p) + 1, Len(s)) = p

\* bytes.CutPrefix
CutPrefix(s, p) ==
    IF HasPrefix(s, p)
    THEN [rest |-> SubSeq(s, Len(p) + 1, Len(s)), found |-> TRUE]
    ELSE [rest |-> s, found |-> FALSE]

\* bytes.CutSuffix
CutSuffix(s, p) ==
    IF HasSuffix(s, p)
    THEN [rest |-> SubSeq(s, 1, Len(s) - Len(p)), found |-> TRUE]
    ELSE [rest |-> s, found |-> FALSE]

(***************************************************************************)
(* Errors.  An error value is its kind and the text it quotes.             *)
(***************************************************************************)
Nil == [kind |-> "nil", text |-> <<>>]
ErrFlushPkt == [kind |-> "ErrFlushPkt", text |-> <<>>]
ErrDelimPkt == [kind |-> "ErrDelimPkt", text |-> <<>>]
ErrResponseEndPkt == [kind |-> "ErrResponseEndPkt", text |-> <<>>]
EOF == [kind |-> "EOF", text |-> <<>>]
ErrUnexpectedEOF == [kind |-> "ErrUnexpectedEOF", text |-> <<>>]
ErrInvalidLength == [kind |-> "invalid pkt-line length", text |-> <<>>]

\* fmt.Errorf("<kind>: %q", string(line))
Errorf(kind, line) == [kind |-> kind, text |-> line]

(***************************************************************************)
(* The pkt-line framing of github.com/bored-engineer/git-pkt-line: four    *)
(* hex digits holding the length of the unit, header included, then the    *)
(* payload; 0000 is the flush marker and 0001 the delimiter.               *)
(***************************************************************************)
HexDigits ==
    <<"0", "1", "2", "3", "4", "5", "6", "7",
      "8", "9", "a", "b", "c", "d", "e", "f">>

Hex4(n) ==
    <<HexDigits[((n \div 4096) % 16) + 1], HexDigits[((n \div 256) % 16) + 1],
      HexDigits[((n \div 16) % 16) + 1], HexDigits[(n % 16) + 1]>>

IsHex(ch) == \E i \in 1..16 : HexDigits[i] = ch

HexVal(ch) == (CHOOSE i \in 1..16 : HexDigits[i] = ch) - 1

\* pktline.AppendLength(b, n): the header of a unit of n payload bytes.
AppendLength(b, n) == b \o Hex4(n + 4)

\* pktline.AppendString(b, s)
AppendString(b, s) == AppendLength(b, Len(s)) \o s

\* pktline.AppendFlushPkt(b)
AppendFlushPkt(b) == b \o <<"0", "0", "0", "0">>

\* pktline.AppendDelimPkt(b)
AppendDelimPkt(b) == b \o <<"0", "0", "0", "1">>

\* (*pktline.Scanner).Scan on the remaining bytes s: the line or the error,
\* and the bytes left.
Scan(s) ==
    IF Len(s) = 0 THEN [line |-> <<>>, err |-> EOF, rest |-> s]
    ELSE IF Len(s) < 4 THEN [line |-> <<>>, err |-> ErrUnexpectedEOF, rest |-> <<>>]
    ELSE IF \E i \in 1..4 : ~IsHex(s[i])
    THEN [line |-> <<>>, err |-> ErrInvalidLength, rest |-> SubSeq(s, 5, Len(s))]
    ELSE
        LET n == HexVal(s[1]) * 4096 + HexVal(s[2]) * 256
                 + HexVal(s[3]) * 16 + HexVal(s[4])
            rest == SubSeq(s, 5, Len(s))
        IN  CASE n = 0 -> [line |-> <<>>, err |-> ErrFlushPkt, rest |-> rest]
              [] n = 1 -> [line |-> <<>>, err |-> ErrDelimPkt, rest |-> rest]
              [] n = 2 -> [line |-> <<>>, err |-> ErrResponseEndPkt, rest |-> rest]
              [] n = 3 -> [line |-> <<>>, err |-> ErrInvalidLength, rest |-> rest]
              [] n > Len(s) -> [line |-> <<>>, err |-> ErrUnexpectedEOF, rest |-> <<>>]
              [] OTHER -> [line |-> SubSeq(s, 5, n), err |-> Nil,
                           rest |-> SubSeq(s, n + 1, Len(s))]

(***************************************************************************)
(* Capability: key[=value] LF.                                             *)
(***************************************************************************)
ZeroPair == [Key |-> <<>>, Value |-> <<>>]

\* Capability.Append
CapabilityAppend(b, c) ==
    IF Len(c.Value) > 0
    THEN AppendLength(b, Len(c.Key) + 1 + Len(c.Value) + 1)
             \o c.Key \o <<EQ>> \o c.Value \o <<LF>>
    ELSE AppendLength(b, Len(c.Key) + 1) \o c.Key \o <<LF>>

\* Capability.Parse without its check of an empty value after the '='.
CapabilityParse_NoValueCheck(c, line) ==
    LET suf == CutSuffix(line, <<LF>>)
        cut == Cut(suf.rest, EQ)
        bad == Errorf("invalid capability", line)
    IN  IF ~suf.found THEN [c |-> c, err |-> bad]
        ELSE IF Len(cut.before) = 0 THEN [c |-> c, err |-> bad]
        ELSE IF cut.found
        THEN [c |-> [Key |-> cut.before, Value |-> cut.after], err |-> Nil]
        ELSE [c |-> [c EXCEPT !.Key = cut.before], err |-> Nil]

\* Capability.Parse on the receiver c: the receiver afterwards and the error.
CapabilityParse(c, line) ==
    LET suf == CutSuffix(line, <<LF>>)
        cut == Cut(suf.rest, EQ)
        bad == Errorf("invalid capability", line)
    IN  IF ~suf.found THEN [c |-> c, err |-> bad]
        ELSE IF Len(cut.before) = 0 THEN [c |-> c, err |-> bad]
        ELSE IF cut.found /\ Len(cut.after) = 0
        THEN [c |-> [c EXCEPT !.Key = cut.before], err |-> bad]
        ELSE IF cut.found
        THEN [c |-> [Key |-> cut.before, Value |-> cut.after], err |-> Nil]
        ELSE [c |-> [c EXCEPT !.Key = cut.before], err |-> Nil]

(***************************************************************************)
(* CommandArgument: key[ value], with no line-feed.                        *)
(***************************************************************************)
\* CommandArgument.Append writing the separator whether or not there is a value.
CommandArgumentAppend_AlwaysSeparator(b, ca) ==
    AppendString(b, ca.Key \o <<SP>> \o ca.Value)

\* CommandArgument.Append
CommandArgumentAppend(b, ca) ==
    IF Len(ca.Value) = 0
    THEN AppendString(b, ca.Key)
    ELSE AppendString(b, ca.Key \o <<SP>> \o ca.Value)

\* CommandArgument.Parse stripping a trailing line-feed, as Capability.Parse does.
CommandArgumentParse_TrimLF(ca, line) ==
    LET suf == CutSuffix(line, <<LF>>)
        cut == Cut(suf.rest, SP)
        bad == Errorf("invalid argument", line)
    IN  IF Len(cut.before) = 0 THEN [c |-> ca, err |-> bad]
        ELSE IF cut.found /\ Len(cut.after) = 0
        THEN [c |-> [ca EXCEPT !.Key = cut.before], err |-> bad]
        ELSE IF cut.found
        THEN [c |-> [Key |-> cut.before, Value |-> cut.after], err |-> Nil]
        ELSE [c |-> [ca EXCEPT !.Key = cut.before], err |-> Nil]

\* CommandArgument.Parse on the receiver ca.
CommandArgumentParse(ca, line) ==
    LET cut == Cut(line, SP)
        bad == Errorf("invalid argument", line)
    IN  IF Len(cut.before) = 0 THEN [c |-> ca, err |-> bad]
        ELSE IF cut.found /\ Len(cut.after) = 0
        THEN [c |-> [ca EXCEPT !.Key = cut.before], err |-> bad]
        ELSE IF cut.found
        THEN [c |-> [Key |-> cut.before, Value |-> cut.after], err |-> Nil]
        ELSE [c |-> [ca EXCEPT !.Key = cut.before], err |-> Nil]

(***************************************************************************)
(* Capabilities and CommandArguments: the elements of the slice, in order. *)
(***************************************************************************)
RECURSIVE CapabilitiesAppend(_, _)
\* Capabilities.Append
CapabilitiesAppend(b, cs) ==
    IF cs = <<>> THEN b
    ELSE CapabilitiesAppend(CapabilityAppend(b, Head(cs)), Tail(cs))

RECURSIVE CommandArgumentsAppend(_, _)
\* CommandArguments.Append, and the loop of CommandRequest.Append
CommandArgumentsAppend(b, cas) ==
    IF cas = <<>> THEN b
    ELSE CommandArgumentsAppend(CommandArgumentAppend(b, Head(cas)), Tail(cas))

\* Capabilities.Parse returning nil at a flush marker instead of the sentinel.
CapabilitiesParseStep_Swallow(cs, scanner) ==
    LET r == Scan(scanner)
        p == CapabilityParse(ZeroPair, r.line)
    IN  IF r.err # Nil
        THEN [list |-> cs, scanner |-> r.rest,
              err |-> IF r.err = ErrFlushPkt THEN Nil ELSE r.err,
              returned |-> TRUE]
        ELSE IF p.err # Nil
        THEN [list |-> cs, scanner |-> r.rest, err |-> p.err, returned |-> TRUE]
        ELSE [list |-> Append(cs, p.c), scanner |-> r.rest, err |-> Nil,
              returned |-> FALSE]

\* One iteration of the loop of Capabilities.Parse: scan a unit, parse it
\* into a fresh Capability, append it; `returned` when the loop returns err.
CapabilitiesParseStep(cs, scanner) ==
    LET r == Scan(scanner)
        p == CapabilityParse(ZeroPair, r.line)
    IN  IF r.err # Nil
        THEN [list |-> cs, scanner |-> r.rest, err |-> r.err, returned |-> TRUE]
        ELSE IF p.err # Nil
        THEN [list |-> cs, scanner |-> r.rest, err |-> p.err, returned |-> TRUE]
        ELSE [list |-> Append(cs, p.c), scanner |-> r.rest, err |-> Nil,
              returned |-> FALSE]

\* One iteration of the loop of CommandArguments.Parse.
CommandArgumentsParseStep(cas, scanner) ==
    LET r == Scan(scanner)
        p == CommandArgumentParse(ZeroPair, r.line)
    IN  IF r.err # Nil
        THEN [list |-> cas, scanner |-> r.rest, err |-> r.err, returned |-> TRUE]
        ELSE IF p.err # Nil
        THEN [list |-> cas, scanner |-> r.rest, err |-> p.err, returned |-> TRUE]
        ELSE [list |-> Append(cas, p.c), scanner |-> r.rest, err |-> Nil,
              returned |-> FALSE]

RECURSIVE CapabilitiesGet_LastMatch(_, _)
\* Capabilities.Get ranging over the slice from its end.
CapabilitiesGet_LastMatch(cc, key) ==
    IF cc = <<>> THEN [value |-> <<>>, ok |-> FALSE]
    ELSE IF cc[Len(cc)].Key = key
    THEN [value |-> cc[Len(cc)].Value, ok |-> TRUE]
    ELSE CapabilitiesGet_LastMatch(SubSeq(cc, 1, Len(cc) - 1), key)

RECURSIVE CapabilitiesGet(_, _)
\* Capabilities.Get
CapabilitiesGet(cc, key) ==
    IF cc = <<>> THEN [value |-> <<>>, ok |-> FALSE]
    ELSE IF Head(cc).Key = key THEN [value |-> Head(cc).Value, ok |-> TRUE]
    ELSE CapabilitiesGet(Tail(cc), key)

RECURSIVE CapabilitiesHas(_, _)
\* Capabilities.Has
CapabilitiesHas(cs, key) ==
    IF cs = <<>> THEN FALSE
    ELSE IF Head(cs).Key = key THEN TRUE
    ELSE CapabilitiesHas(Tail(cs), key)

RECURSIVE CommandArgumentsGet(_, _)
\* CommandArguments.Get
CommandArgumentsGet(cas, key) ==
    IF cas = <<>> THEN [value |-> <<>>, ok |-> FALSE]
    ELSE IF Head(cas).Key = key THEN [value |-> Head(cas).Value, ok |-> TRUE]
    ELSE CommandArgumentsGet(Tail(cas), key)

RECURSIVE CommandArgumentsHas(_, _)
\* CommandArguments.Has
CommandArgumentsHas(cas, key) ==
    IF cas = <<>> THEN FALSE
    ELSE IF Head(cas).Key = key THEN TRUE
    ELSE CommandArgumentsHas(Tail(cas), key)

(***************************************************************************)
(* CapabilityAdvertisement and CommandRequest.                             *)
(***************************************************************************)
VersionLine == <<"v", "e", "r", "s", "i", "o", "n", " ", "2", LF>>

CommandPrefix == <<"c", "o", "m", "m", "a", "n", "d", EQ>>

\* CapabilityAdvertisement.Append
CapabilityAdvertisementAppend(b, cs) ==
    AppendFlushPkt(CapabilitiesAppend(AppendString(b, VersionLine), cs))

\* CommandRequest.Append writing the arguments right after the capabilities.
CommandRequestAppend_NoDelim(b, cr) ==
    AppendFlushPkt(
        CommandArgumentsAppend(
            CapabilitiesAppend(
                AppendString(b, CommandPrefix \o cr.Command \o <<LF>>),
                cr.Capabilities),
            cr.Arguments))

\* CommandRequest.Append
CommandRequestAppend(b, cr) ==
    AppendFlushPkt(
        CommandArgumentsAppend(
            AppendDelimPkt(
                CapabilitiesAppend(
                    AppendString(b, CommandPrefix \o cr.Command \o <<LF>>),
                    cr.Capabilities)),
            cr.Arguments))

\* A decoder over the bytes s, its receiver the zero value.
MsgOpen(kind, pc, val, s) ==
    [kind |-> kind, pc |-> pc, val |-> val, scanner |-> s, err |-> Nil,
     Command |-> <<>>, Capabilities |-> <<>>, Arguments |-> <<>>]

\* CapabilityAdvertisement.Parse comparing the version without its line-feed.
AdvParseVersion_TrimLF(m) ==
    LET r == Scan(m.scanner)
    IN  IF r.err # Nil
        THEN [m EXCEPT !.scanner = r.rest, !.err = r.err, !.pc = "done"]
        ELSE IF CutSuffix(r.line, <<LF>>).rest # CutSuffix(VersionLine, <<LF>>).rest
        THEN [m EXCEPT !.scanner = r.rest, !.pc = "done",
                       !.err = Errorf("invalid protocol-version", r.line)]
        ELSE [m EXCEPT !.scanner = r.rest, !.pc = "caps"]

\* CapabilityAdvertisement.Parse: the version line.
AdvParseVersion(m) ==
    LET r == Scan(m.scanner)
    IN  IF r.err # Nil
        THEN [m EXCEPT !.scanner = r.rest, !.err = r.err, !.pc = "done"]
        ELSE IF r.line # VersionLine
        THEN [m EXCEPT !.scanner = r.rest, !.pc = "done",
                       !.err = Errorf("invalid protocol-version", r.line)]
        ELSE [m EXCEPT !.scanner = r.rest, !.pc = "caps"]

\* CapabilityAdvertisement.Parse returning whatever Capabilities.Parse returns.
AdvParseCapabilities_NoTolerance(m) ==
    LET r == CapabilitiesParseStep(m.Capabilities, m.scanner)
    IN  [m EXCEPT !.Capabilities = r.list, !.scanner = r.scanner,
                  !.err = r.err,
                  !.pc = IF r.returned THEN "done" ELSE "caps"]

\* CapabilityAdvertisement.Parse: ca.Capabilities.Parse, its flush tolerated.
AdvParseCapabilities(m) ==
    LET r == CapabilitiesParseStep(m.Capabilities, m.scanner)
    IN  [m EXCEPT !.Capabilities = r.list, !.scanner = r.scanner,
                  !.err = IF r.returned /\ r.err # ErrFlushPkt THEN r.err ELSE Nil,
                  !.pc = IF r.returned THEN "done" ELSE "caps"]

\* CommandRequest.Parse tolerating the flush marker where the delimiter ends
\* the capability list.
CommandRequestParseCapabilities_Flush(m) ==
    LET r == CapabilitiesParseStep(m.Capabilities, m.scanner)
    IN  [m EXCEPT !.Capabilities = r.list, !.scanner = r.scanner,
                  !.err = IF r.returned /\ r.err # ErrFlushPkt THEN r.err ELSE Nil,
                  !.pc = IF ~r.returned THEN "caps"
                         ELSE IF r.err = ErrFlushPkt THEN "args" ELSE "done"]

\* CommandRequest.Parse: the command line.
CommandRequestParseCommand(m) ==
    LET r == Scan(m.scanner)
        suf == CutSuffix(r.line, <<LF>>)
        pre == CutPrefix(suf.rest, CommandPrefix)
        bad == Errorf("invalid command-request", r.line)
    IN  IF r.err # Nil
        THEN [m EXCEPT !.scanner = r.rest, !.err = r.err, !.pc = "done"]
        ELSE IF ~suf.found \/ ~pre.found
        THEN [m EXCEPT !.scanner = r.rest, !.err = bad, !.pc = "done"]
        ELSE [m EXCEPT !.scanner = r.rest, !.Command = pre.rest, !.pc = "caps"]

\* CommandRequest.Parse: cr.Capabilities.Parse, its delimiter tolerated.
CommandRequestParseCapabilities(m) ==
    LET r == CapabilitiesParseStep(m.Capabilities, m.scanner)
    IN  [m EXCEPT !.Capabilities = r.list, !.scanner = r.scanner,
                  !.err = IF r.returned /\ r.err # ErrDelimPkt THEN r.err ELSE Nil,
                  !.pc = IF ~r.returned THEN "caps"
                         ELSE IF r.err = ErrDelimPkt THEN "args" ELSE "done"]

\* CommandRequest.Parse: cr.Arguments.Parse, its flush tolerated.
CommandRequestParseArguments(m) ==
    LET r == CommandArgumentsParseStep(m.Arguments, m.scanner)
    IN  [m EXCEPT !.Arguments = r.list, !.scanner = r.scanner,
                  !.err = IF r.returned /\ r.err # ErrFlushPkt THEN r.err ELSE Nil,
                  !.pc = IF r.returned THEN "done" ELSE "args"]

(***************************************************************************)
(* The sections of a fetch response.  A slice is nil or holds elements;    *)
(* append to a nil slice makes it non-nil.                                 *)
(***************************************************************************)
NilSlice == [nil |-> TRUE, elems |-> <<>>]

MakeSlice(elems) == [nil |-> FALSE, elems |-> elems]

SliceAppend(s, x) == [nil |-> FALSE, elems |-> Append(s.elems, x)]

AcknowledgmentsHeader ==
    <<"a", "c", "k", "n", "o", "w", "l", "e", "d", "g", "m", "e", "n", "t", "s", LF>>
ShallowInfoHeader ==
    <<"s", "h", "a", "l", "l", "o", "w", "-", "i", "n", "f", "o", LF>>
WantedRefsHeader ==
    <<"w", "a", "n", "t", "e", "d", "-", "r", "e", "f", "s", LF>>
PackfileURIsHeader ==
    <<"p", "a", "c", "k", "f", "i", "l", "e", "-", "u", "r", "i", "s", LF>>
PackfileHeader == <<"p", "a", "c", "k", "f", "i", "l", "e", LF>>
ReadyLine == <<"r", "e", "a", "d", "y", LF>>
NAKLine == <<"N", "A", "K", LF>>
ACKPrefix == <<"A", "C", "K", SP>>
ShallowPrefix == <<"s", "h", "a", "l", "l", "o", "w", SP>>
UnshallowPrefix == <<"u", "n", "s", "h", "a", "l", "l", "o", "w", SP>>

ZeroAcknowledgements == [Ready |-> FALSE, NAK |-> FALSE, ACKs |-> NilSlice]

\* Acknowledgements.IsZero
AcknowledgementsIsZero(a) == ~a.Ready /\ ~a.NAK /\ a.ACKs.nil

RECURSIVE AppendACKs(_, _)
\* The loop of Acknowledgements.Append over a.ACKs
AppendACKs(b, ids) ==
    IF ids = <<>> THEN b
    ELSE AppendACKs(
             AppendLength(b, Len(ACKPrefix) + Len(Head(ids)) + 1)
                 \o ACKPrefix \o Head(ids) \o <<LF>>,
             Tail(ids))

\* Acknowledgements.Append
AcknowledgementsAppend(b, a) ==
    LET b1 == AppendString(b, AcknowledgmentsHeader)
        b2 == IF a.Ready THEN AppendString(b1, ReadyLine) ELSE b1
        b3 == IF a.NAK THEN AppendString(b2, NAKLine) ELSE b2
    IN  AppendACKs(b3, a.ACKs.elems)

\* Acknowledgements.Parse taking a ready line only ahead of the first ACK.
AcknowledgementsParseStep_ReadyFirst(a, scanner) ==
    LET r == Scan(scanner)
        pre == CutPrefix(r.line, ACKPrefix)
        suf == CutSuffix(pre.rest, <<LF>>)
    IN  IF r.err # Nil
        THEN [val |-> a, scanner |-> r.rest, err |-> r.err, returned |-> TRUE]
        ELSE IF pre.found /\ ~suf.found
        THEN [val |-> a, scanner |-> r.rest, returned |-> TRUE,
              err |-> Errorf("invalid ack", r.line)]
        ELSE [scanner |-> r.rest, err |-> Nil, returned |-> FALSE,
              val |-> IF pre.found
                      THEN [a EXCEPT !.ACKs = SliceAppend(a.ACKs, suf.rest)]
                      ELSE IF r.line = NAKLine THEN [a EXCEPT !.NAK = TRUE]
                      ELSE IF r.line = ReadyLine /\ a.ACKs.nil
                      THEN [a EXCEPT !.Ready = TRUE]
                      ELSE a]

\* Acknowledgements.Parse failing on a line that is none of its three kinds.
AcknowledgementsParseStep_RejectsUnknown(a, scanner) ==
    LET r == Scan(scanner)
        pre == CutPrefix(r.line, ACKPrefix)
        suf == CutSuffix(pre.rest, <<LF>>)
    IN  IF r.err # Nil
        THEN [val |-> a, scanner |-> r.rest, err |-> r.err, returned |-> TRUE]
        ELSE IF (pre.found /\ ~suf.found)
                \/ (~pre.found /\ r.line \notin {NAKLine, ReadyLine})
        THEN [val |-> a, scanner |-> r.rest, returned |-> TRUE,
              err |-> Errorf("invalid ack", r.line)]
        ELSE [scanner |-> r.rest, err |-> Nil, returned |-> FALSE,
              val |-> IF pre.found
                      THEN [a EXCEPT !.ACKs = SliceAppend(a.ACKs, suf.rest)]
                      ELSE IF r.line = NAKLine THEN [a EXCEPT !.NAK = TRUE]
                      ELSE [a EXCEPT !.Ready = TRUE]]

\* One iteration of the loop of Acknowledgements.Parse.
AcknowledgementsParseStep(a, scanner) ==
    LET r == Scan(scanner)
        pre == CutPrefix(r.line, ACKPrefix)
        suf == CutSuffix(pre.rest, <<LF>>)
    IN  IF r.err # Nil
        THEN [val |-> a, scanner |-> r.rest, err |-> r.err, returned |-> TRUE]
        ELSE IF pre.found /\ ~suf.found
        THEN [val |-> a, scanner |-> r.rest, returned |-> TRUE,
              err |-> Errorf("invalid ack", r.line)]
        ELSE [scanner |-> r.rest, err |-> Nil, returned |-> FALSE,
              val |-> IF pre.found
                      THEN [a EXCEPT !.ACKs = SliceAppend(a.ACKs, suf.rest)]
                      ELSE IF r.line = NAKLine THEN [a EXCEPT !.NAK = TRUE]
                      ELSE IF r.line = ReadyLine THEN [a EXCEPT !.Ready = TRUE]
                      ELSE a]

\* Shallow.Append
ShallowAppend(b, s) ==
    AppendLength(b, Len(ShallowPrefix) + Len(s.ObjectID) + 1)
        \o ShallowPrefix \o s.ObjectID \o <<LF>>

\* Unshallow.Append
UnshallowAppend(b, u) ==
    AppendLength(b, Len(UnshallowPrefix) + Len(u.ObjectID) + 1)
        \o UnshallowPrefix \o u.ObjectID \o <<LF>>

\* Shallow.Parse into a fresh Shallow
ShallowParse(line) ==
    LET suf == CutSuffix(line, <<LF>>)
        pre == CutPrefix(suf.rest, ShallowPrefix)
    IN  IF ~suf.found \/ ~pre.found
        THEN [val |-> [ObjectID |-> <<>>], err |-> Errorf("invalid shallow", line)]
        ELSE [val |-> [ObjectID |-> pre.rest], err |-> Nil]

\* Unshallow.Parse into a fresh Unshallow
UnshallowParse(line) ==
    LET suf == CutSuffix(line, <<LF>>)
        pre == CutPrefix(suf.rest, UnshallowPrefix)
    IN  IF ~suf.found \/ ~pre.found
        THEN [val |-> [ObjectID |-> <<>>], err |-> Errorf("invalid unshallow", line)]
        ELSE [val |-> [ObjectID |-> pre.rest], err |-> Nil]

ZeroShallowInfo == [Shallow |-> NilSlice, Unshallow |-> NilSlice]

\* ShallowInfo.IsZero testing the lengths of the lists.
ShallowInfoIsZero_Len(si) == Len(si.Shallow.elems) = 0 /\ Len(si.Unshallow.elems) = 0

\* ShallowInfo.IsZero
ShallowInfoIsZero(si) == si.Shallow.nil /\ si.Unshallow.nil

RECURSIVE AppendShallows(_, _)
AppendShallows(b, ss) ==
    IF ss = <<>> THEN b ELSE AppendShallows(ShallowAppend(b, Head(ss)), Tail(ss))

RECURSIVE AppendUnshallows(_, _)
AppendUnshallows(b, us) ==
    IF us = <<>> THEN b ELSE AppendUnshallows(UnshallowAppend(b, Head(us)), Tail(us))

\* ShallowInfo.Append
ShallowInfoAppend(b, si) ==
    AppendUnshallows(
        AppendShallows(AppendString(b, ShallowInfoHeader), si.Shallow.elems),
        si.Unshallow.elems)

\* One iteration of the loop of ShallowInfo.Parse.
ShallowInfoParseStep(si, scanner) ==
    LET r == Scan(scanner)
        s == ShallowParse(r.line)
        u == UnshallowParse(r.line)
    IN  IF r.err # Nil
        THEN [val |-> si, scanner |-> r.rest, err |-> r.err, returned |-> TRUE]
        ELSE IF HasPrefix(r.line, ShallowPrefix)
        THEN IF s.err # Nil
             THEN [val |-> si, scanner |-> r.rest, err |-> s.err, returned |-> TRUE]
             ELSE [val |-> [si EXCEPT !.Shallow = SliceAppend(si.Shallow, s.val)],
                   scanner |-> r.rest, err |-> Nil, returned |-> FALSE]
        ELSE IF HasPrefix(r.line, UnshallowPrefix)
        THEN IF u.err # Nil
             THEN [val |-> si, scanner |-> r.rest, err |-> u.err, returned |-> TRUE]
             ELSE [val |-> [si EXCEPT !.Unshallow = SliceAppend(si.Unshallow, u.val)],
                   scanner |-> r.rest, err |-> Nil, returned |-> FALSE]
        ELSE [val |-> si, scanner |-> r.rest, returned |-> TRUE,
              err |-> Errorf("invalid shallow-info", r.line)]

\* WantedRef.Append
WantedRefAppend(b, wr) ==
    AppendLength(b, Len(wr.ObjectID) + 1 + Len(wr.Name) + 1)
        \o wr.ObjectID \o <<SP>> \o wr.Name \o <<LF>>

\* WantedRef.Parse into a fresh WantedRef
WantedRefParse(line) ==
    LET suf == CutSuffix(line, <<LF>>)
        cut == Cut(suf.rest, SP)
    IN  IF ~suf.found \/ ~cut.found
        THEN [val |-> [ObjectID |-> <<>>, Name |-> <<>>],
              err |-> Errorf("invalid wanted-ref", line)]
        ELSE [val |-> [ObjectID |-> cut.before, Name |-> cut.after], err |-> Nil]

\* WantedRefs.IsZero testing the length of the list.
WantedRefsIsZero_Len(wrs) == Len(wrs.elems) = 0

\* WantedRefs.IsZero
WantedRefsIsZero(wrs) == wrs.nil

RECURSIVE AppendWantedRefs(_, _)
AppendWantedRefs(b, wrs) ==
    IF wrs = <<>> THEN b
    ELSE AppendWantedRefs(WantedRefAppend(b, Head(wrs)), Tail(wrs))

\* WantedRefs.Append
WantedRefsAppend(b, wrs) ==
    AppendWantedRefs(AppendString(b, WantedRefsHeader), wrs.elems)

\* One iteration of the loop of WantedRefs.Parse.
WantedRefsParseStep(wrs, scanner) ==
    LET r == Scan(scanner)
        p == WantedRefParse(r.line)
    IN  IF r.err # Nil
        THEN [val |-> wrs, scanner |-> r.rest, err |-> r.err, returned |-> TRUE]
        ELSE IF p.err # Nil
        THEN [val |-> wrs, scanner |-> r.rest, err |-> p.err, returned |-> TRUE]
        ELSE [val |-> SliceAppend(wrs, p.val), scanner |-> r.rest, err |-> Nil,
              returned |-> FALSE]

\* PackfileURI.Append
PackfileURIAppend(b, pu) ==
    AppendLength(b, Len(pu.Checksum) + 1 + Len(pu.URI) + 1)
        \o pu.Checksum \o <<SP>> \o pu.URI \o <<LF>>

\* PackfileURI.Parse into a fresh PackfileURI
PackfileURIParse(line) ==
    LET suf == CutSuffix(line, <<LF>>)
        cut == Cut(suf.rest, SP)
    IN  IF ~suf.found \/ ~cut.found
        THEN [val |-> [Checksum |-> <<>>, URI |-> <<>>],
              err |-> Errorf("invalid packfile-uri", line)]
        ELSE [val |-> [Checksum |-> cut.before, URI |-> cut.after], err |-> Nil]

\* PackfileURIs.IsZero
PackfileURIsIsZero(pus) == pus.nil

RECURSIVE AppendPackfileURIs(_, _)
AppendPackfileURIs(b, pus) ==
    IF pus = <<>> THEN b
    ELSE AppendPackfileURIs(PackfileURIAppend(b, Head(pus)), Tail(pus))

\* PackfileURIs.Append
PackfileURIsAppend(b, pus) ==
    AppendPackfileURIs(AppendString(b, PackfileURIsHeader), pus.elems)

\* One iteration of the loop of PackfileURIs.Parse.
PackfileURIsParseStep(pus, scanner) ==
    LET r == Scan(scanner)
        p == PackfileURIParse(r.line)
    IN  IF r.err # Nil
        THEN [val |-> pus, scanner |-> r.rest, err |-> r.err, returned |-> TRUE]
        ELSE IF p.err # Nil
        THEN [val |-> pus, scanner |-> r.rest, err |-> p.err, returned |-> TRUE]
        ELSE [val |-> SliceAppend(pus, p.val), scanner |-> r.rest, err |-> Nil,
              returned |-> FALSE]

(***************************************************************************)
(* FetchResponse.                                                          *)
(***************************************************************************)
ZeroFetchResponse ==
    [Acknowledgements |-> ZeroAcknowledgements, ShallowInfo |-> ZeroShallowInfo,
     WantedRefs |-> NilSlice, PackfileURIs |-> NilSlice]

\* FetchResponse.Append without the return after the flush of a NAK.
FetchResponseAppend_NoEarlyReturn(b, fr) ==
    LET b1 == IF AcknowledgementsIsZero(fr.Acknowledgements) THEN b
              ELSE IF fr.Acknowledgements.NAK
              THEN AppendFlushPkt(AcknowledgementsAppend(b, fr.Acknowledgements))
              ELSE AppendDelimPkt(AcknowledgementsAppend(b, fr.Acknowledgements))
        b2 == IF ShallowInfoIsZero(fr.ShallowInfo) THEN b1
              ELSE ShallowInfoAppend(b1, fr.ShallowInfo)
        b3 == IF WantedRefsIsZero(fr.WantedRefs) THEN b2
              ELSE WantedRefsAppend(b2, fr.WantedRefs)
        b4 == IF PackfileURIsIsZero(fr.PackfileURIs) THEN b3
              ELSE PackfileURIsAppend(b3, fr.PackfileURIs)
    IN  AppendString(b4, PackfileHeader)

\* FetchResponse.Append writing the packfile header ahead of the packfile-uris
\* section.
FetchResponseAppend_PackfileEarly(b, fr) ==
    LET acked == ~AcknowledgementsIsZero(fr.Acknowledgements)
        b0 == IF acked THEN AcknowledgementsAppend(b, fr.Acknowledgements) ELSE b
        b1 == IF acked THEN AppendDelimPkt(b0) ELSE b0
        b2 == IF ShallowInfoIsZero(fr.ShallowInfo) THEN b1
              ELSE ShallowInfoAppend(b1, fr.ShallowInfo)
        b3 == IF WantedRefsIsZero(fr.WantedRefs) THEN b2
              ELSE WantedRefsAppend(b2, fr.WantedRefs)
        b4 == AppendString(b3, PackfileHeader)
    IN  IF acked /\ fr.Acknowledgements.NAK
        THEN AppendFlushPkt(b0)
        ELSE IF PackfileURIsIsZero(fr.PackfileURIs) THEN b4
        ELSE PackfileURIsAppend(b4, fr.PackfileURIs)

\* FetchResponse.Append
FetchResponseAppend(b, fr) ==
    LET acked == ~AcknowledgementsIsZero(fr.Acknowledgements)
        b0 == IF acked THEN AcknowledgementsAppend(b, fr.Acknowledgements) ELSE b
        b1 == IF acked THEN AppendDelimPkt(b0) ELSE b0
        b2 == IF ShallowInfoIsZero(fr.ShallowInfo) THEN b1
              ELSE ShallowInfoAppend(b1, fr.ShallowInfo)
        b3 == IF WantedRefsIsZero(fr.WantedRefs) THEN b2
              ELSE WantedRefsAppend(b2, fr.WantedRefs)
        b4 == IF PackfileURIsIsZero(fr.PackfileURIs) THEN b3
              ELSE PackfileURIsAppend(b3, fr.PackfileURIs)
    IN  IF acked /\ fr.Acknowledgements.NAK
        THEN AppendFlushPkt(b0)
        ELSE AppendString(b4, PackfileHeader)

\* FetchResponse.Bytes
FetchResponseBytes(fr) == FetchResponseAppend(<<>>, fr)

\* The side-band channel bytes 1, 2 and 3 of pktline, and a byte that is none.
SideBandPackData == "<1>"
SideBandProgress == "<2>"
SideBandFatal == "<3>"
SideBandOther == "<4>"

\* pktline.SideBand(line): the channel byte and the rest of the line.
SideBand(line) == [sideband |-> Head(line), data |-> Tail(line)]

\* An io.Writer: nil or not, whether its Write fails, and what was written,
\* one entry per Write.
Sink(present, failing) == [present |-> present, failing |-> failing, writes |-> <<>>]

ErrWrite == [kind |-> "write failed", text |-> <<>>]

\* w.Write(data) behind the nil check of FetchResponse.Parse.
Write(w, data) ==
    IF ~w.present THEN [w |-> w, err |-> Nil]
    ELSE IF w.failing THEN [w |-> w, err |-> ErrWrite]
    ELSE [w |-> [w EXCEPT !.writes = Append(w.writes, data)], err |-> Nil]

\* fr.Parse(scanner, packfile, progress) about to start on the bytes s.
FetchOpen(pc, s, packfile, progress) ==
    [pc |-> pc, scanner |-> s, pos |-> 0, line |-> <<>>, err |-> Nil,
     fr |-> ZeroFetchResponse, packfile |-> packfile, progress |-> progress]

\* The units scanned so far, one more unless the input had ended.
Advance(d, r) == IF r.err = EOF THEN d.pos ELSE d.pos + 1

\* The top-level loop going round at a delimiter without having taken it
\* from the scanner.
FetchParseDispatch_DelimNotConsumed(d) ==
    LET r == Scan(d.scanner)
        d1 == [d EXCEPT !.scanner = r.rest, !.pos = Advance(d, r), !.line = r.line]
    IN  IF r.err # Nil
        THEN IF r.err = ErrDelimPkt THEN d
             ELSE [d1 EXCEPT !.err = r.err, !.pc = "done"]
        ELSE CASE r.line = AcknowledgmentsHeader -> [d1 EXCEPT !.pc = "acknowledgments"]
               [] r.line = ShallowInfoHeader -> [d1 EXCEPT !.pc = "shallow-info"]
               [] r.line = WantedRefsHeader -> [d1 EXCEPT !.pc = "wanted-refs"]
               [] r.line = PackfileURIsHeader -> [d1 EXCEPT !.pc = "packfile-uris"]
               [] r.line = PackfileHeader -> [d1 EXCEPT !.pc = "packfile"]
               [] OTHER -> [d1 EXCEPT !.pc = "done",
                                      !.err = Errorf("unsupported pkt-line", r.line)]

\* FetchResponse.Parse passing over a line that is none of the headers.
FetchParseDispatch_SkipUnknown(d) ==
    LET r == Scan(d.scanner)
        d1 == [d EXCEPT !.scanner = r.rest, !.pos = Advance(d, r), !.line = r.line]
    IN  IF r.err # Nil
        THEN IF r.err = ErrDelimPkt THEN d1
             ELSE [d1 EXCEPT !.err = r.err, !.pc = "done"]
        ELSE CASE r.line = AcknowledgmentsHeader -> [d1 EXCEPT !.pc = "acknowledgments"]
               [] r.line = ShallowInfoHeader -> [d1 EXCEPT !.pc = "shallow-info"]
               [] r.line = WantedRefsHeader -> [d1 EXCEPT !.pc = "wanted-refs"]
               [] r.line = PackfileURIsHeader -> [d1 EXCEPT !.pc = "packfile-uris"]
               [] r.line = PackfileHeader -> [d1 EXCEPT !.pc = "packfile"]
               [] OTHER -> d1

\* FetchResponse.Parse: one iteration of the outer loop, up to the call of
\* the section's Parse.
FetchParseDispatch(d) ==
    LET r == Scan(d.scanner)
        d1 == [d EXCEPT !.scanner = r.rest, !.pos = Advance(d, r), !.line = r.line]
    IN  IF r.err # Nil
        THEN IF r.err = ErrDelimPkt THEN d1
             ELSE [d1 EXCEPT !.err = r.err, !.pc = "done"]
        ELSE CASE r.line = AcknowledgmentsHeader -> [d1 EXCEPT !.pc = "acknowledgments"]
               [] r.line = ShallowInfoHeader -> [d1 EXCEPT !.pc = "shallow-info"]
               [] r.line = WantedRefsHeader -> [d1 EXCEPT !.pc = "wanted-refs"]
               [] r.line = PackfileURIsHeader -> [d1 EXCEPT !.pc = "packfile-uris"]
               [] r.line = PackfileHeader -> [d1 EXCEPT !.pc = "packfile"]
               [] OTHER -> [d1 EXCEPT !.pc = "done",
                                      !.err = Errorf("unsupported pkt-line", r.line)]

\* After a section's Parse returned err: a flush or delimiter sentinel ends the
\* section and the loop goes on.
FetchSectionReturn_SentinelEnds(d, r) ==
    LET ends == r.returned /\ r.err \in {ErrFlushPkt, ErrDelimPkt}
    IN  [d EXCEPT !.scanner = r.scanner,
                  !.pos = IF r.err = EOF THEN d.pos ELSE d.pos + 1,
                  !.err = IF r.returned /\ ~ends THEN r.err ELSE Nil,
                  !.pc = IF ~r.returned THEN d.pc
                         ELSE IF ends \/ r.err = Nil THEN "dispatch" ELSE "done"]

\* After a section's Parse returned err: return it, or loop when it is nil.
FetchSectionReturn(d, r) ==
    [d EXCEPT !.scanner = r.scanner,
              !.pos = IF r.err = EOF THEN d.pos ELSE d.pos + 1,
              !.err = IF r.returned THEN r.err ELSE Nil,
              !.pc = IF ~r.returned THEN d.pc
                     ELSE IF r.err # Nil THEN "done" ELSE "dispatch"]

\* FetchResponse.Parse: one iteration of fr.Acknowledgements.Parse(scanner)
FetchParseAcknowledgements(d) ==
    LET r == AcknowledgementsParseStep(d.fr.Acknowledgements, d.scanner)
    IN  [FetchSectionReturn(d, r) EXCEPT !.fr.Acknowledgements = r.val]

\* FetchResponse.Parse: one iteration of fr.ShallowInfo.Parse(scanner)
FetchParseShallowInfo(d) ==
    LET r == ShallowInfoParseStep(d.fr.ShallowInfo, d.scanner)
    IN  [FetchSectionReturn(d, r) EXCEPT !.fr.ShallowInfo = r.val]

\* FetchResponse.Parse: one iteration of fr.WantedRefs.Parse(scanner)
FetchParseWantedRefs(d) ==
    LET r == WantedRefsParseStep(d.fr.WantedRefs, d.scanner)
    IN  [FetchSectionReturn(d, r) EXCEPT !.fr.WantedRefs = r.val]

\* FetchResponse.Parse: one iteration of fr.PackfileURIs.Parse(scanner)
FetchParsePackfileURIs(d) ==
    LET r == PackfileURIsParseStep(d.fr.PackfileURIs, d.scanner)
    IN  [FetchSectionReturn(d, r) EXCEPT !.fr.PackfileURIs = r.val]

\* The packfile loop writing the channel byte along with the data.
FetchParsePackfile_WritesLine(d) ==
    LET r == Scan(d.scanner)
        d1 == [d EXCEPT !.scanner = r.rest, !.pos = Advance(d, r), !.line = r.line]
        sb == SideBand(r.line)
        pw == Write(d.packfile, r.line)
        gw == Write(d.progress, r.line)
    IN  IF r.err # Nil
        THEN [d1 EXCEPT !.pc = "done",
                        !.err = IF r.err = ErrFlushPkt THEN Nil ELSE r.err]
        ELSE CASE sb.sideband = SideBandPackData ->
                      IF pw.err # Nil THEN [d1 EXCEPT !.pc = "done", !.err = pw.err]
                      ELSE [d1 EXCEPT !.packfile = pw.w]
               [] sb.sideband = SideBandProgress ->
                      IF gw.err # Nil THEN [d1 EXCEPT !.pc = "done", !.err = gw.err]
                      ELSE [d1 EXCEPT !.progress = gw.w]
               [] sb.sideband = SideBandFatal ->
                      [d1 EXCEPT !.pc = "done", !.err = Errorf("fatal", sb.data)]
               [] OTHER ->
                      [d1 EXCEPT !.pc = "done",
                                 !.err = Errorf("invalid sideband", r.line)]

\* The packfile loop without the nil checks: a unit for a nil sink ends it.
FetchParsePackfile_NoNilCheck(d) ==
    LET r == Scan(d.scanner)
        d1 == [d EXCEPT !.scanner = r.rest, !.pos = Advance(d, r), !.line = r.line]
        sb == SideBand(r.line)
        pw == Write(d.packfile, sb.data)
        gw == Write(d.progress, sb.data)
    IN  IF r.err # Nil
        THEN [d1 EXCEPT !.pc = "done",
                        !.err = IF r.err = ErrFlushPkt THEN Nil ELSE r.err]
        ELSE CASE sb.sideband = SideBandPackData ->
                      IF pw.err # Nil \/ ~d.packfile.present
                      THEN [d1 EXCEPT !.pc = "done", !.err = ErrWrite]
                      ELSE [d1 EXCEPT !.packfile = pw.w]
               [] sb.sideband = SideBandProgress ->
                      IF gw.err # Nil \/ ~d.progress.present
                      THEN [d1 EXCEPT !.pc = "done", !.err = ErrWrite]
                      ELSE [d1 EXCEPT !.progress = gw.w]
               [] sb.sideband = SideBandFatal ->
                      [d1 EXCEPT !.pc = "done", !.err = Errorf("fatal", sb.data)]
               [] OTHER ->
                      [d1 EXCEPT !.pc = "done",
                                 !.err = Errorf("invalid sideband", r.line)]

\* The packfile loop reading on after a Write that failed.
FetchParsePackfile_ReadsOnAfterWriteError(d) ==
    LET r == Scan(d.scanner)
        d1 == [d EXCEPT !.scanner = r.rest, !.pos = Advance(d, r), !.line = r.line]
        sb == SideBand(r.line)
        pw == Write(d.packfile, sb.data)
        gw == Write(d.progress, sb.data)
    IN  IF r.err # Nil
        THEN [d1 EXCEPT !.pc = "done",
                        !.err = IF r.err = ErrFlushPkt THEN Nil ELSE r.err]
        ELSE CASE sb.sideband = SideBandPackData -> [d1 EXCEPT !.packfile = pw.w]
               [] sb.sideband = SideBandProgress -> [d1 EXCEPT !.progress = gw.w]
               [] sb.sideband = SideBandFatal ->
                      [d1 EXCEPT !.pc = "done", !.err = Errorf("fatal", sb.data)]
               [] OTHER ->
                      [d1 EXCEPT !.pc = "done",
                                 !.err = Errorf("invalid sideband", r.line)]

\* The packfile loop printing a channel-3 unit as progress and reading on.
FetchParsePackfile_FatalAsProgress(d) ==
    LET r == Scan(d.scanner)
        d1 == [d EXCEPT !.scanner = r.rest, !.pos = Advance(d, r), !.line = r.line]
        sb == SideBand(r.line)
        pw == Write(d.packfile, sb.data)
        gw == Write(d.progress, sb.data)
    IN  IF r.err # Nil
        THEN [d1 EXCEPT !.pc = "done",
                        !.err = IF r.err = ErrFlushPkt THEN Nil ELSE r.err]
        ELSE CASE sb.sideband = SideBandPackData ->
                      IF pw.err # Nil THEN [d1 EXCEPT !.pc = "done", !.err = pw.err]
                      ELSE [d1 EXCEPT !.packfile = pw.w]
               [] sb.sideband \in {SideBandProgress, SideBandFatal} ->
                      IF gw.err # Nil THEN [d1 EXCEPT !.pc = "done", !.err = gw.err]
                      ELSE [d1 EXCEPT !.progress = gw.w]
               [] OTHER ->
                      [d1 EXCEPT !.pc = "done",
                                 !.err = Errorf("invalid sideband", r.line)]

\* FetchResponse.Parse: one iteration of the loop of the packfile section.
\* The error of a channel-3 unit is fmt.Errorf("fatal: %s", data): its text is
\* the data.
FetchParsePackfile(d) ==
    LET r == Scan(d.scanner)
        d1 == [d EXCEPT !.scanner = r.rest, !.pos = Advance(d, r), !.line = r.line]
        sb == SideBand(r.line)
        pw == Write(d.packfile, sb.data)
        gw == Write(d.progress, sb.data)
    IN  IF r.err # Nil
        THEN [d1 EXCEPT !.pc = "done",
                        !.err = IF r.err = ErrFlushPkt THEN Nil ELSE r.err]
        ELSE CASE sb.sideband = SideBandPackData ->
                      IF pw.err # Nil THEN [d1 EXCEPT !.pc = "done", !.err = pw.err]
                      ELSE [d1 EXCEPT !.packfile = pw.w]
               [] sb.sideband = SideBandProgress ->
                      IF gw.err # Nil THEN [d1 EXCEPT !.pc = "done", !.err = gw.err]
                      ELSE [d1 EXCEPT !.progress = gw.w]
               [] sb.sideband = SideBandFatal ->
                      [d1 EXCEPT !.pc = "done", !.err = Errorf("fatal", sb.data)]
               [] OTHER ->
                      [d1 EXCEPT !.pc = "done",
                                 !.err = Errorf("invalid sideband", r.line)]

(***************************************************************************)
(* SpecPair: one call of a pair's codec.  Either a raw line is handed to   *)
(* Parse on some receiver, or a value is rendered by Append, the unit is   *)
(* scanned back and its payload handed to Parse on a fresh receiver.       *)
(***************************************************************************)
Idle == [pc |-> "idle"]

PairAlphabet == {"k", "v", EQ, SP, LF}

PairKinds == {"Capability", "CommandArgument"}

\* The receivers a line is parsed into: the zero value, as the list decoders
\* and the tests pass it, and a value that was populated before.
PairReceivers == {ZeroPair, [Key |-> <<"o">>, Value |-> <<"w">>]}

PairValues ==
    [Key : StringsUpTo(PairAlphabet, MaxFieldLen),
     Value : StringsUpTo(PairAlphabet, MaxFieldLen)]

PairInit ==
    /\ \/ \E kind \in PairKinds, line \in StringsUpTo(PairAlphabet, MaxLineLen),
             recv \in PairReceivers :
              pair = [kind |-> kind, flow |-> "line", pc |-> "parse",
                      val |-> ZeroPair, b |-> <<>>,
                      line |-> line, recv0 |-> recv, recv |-> recv, err |-> Nil]
       \/ \E kind \in PairKinds, val \in PairValues :
              pair = [kind |-> kind, flow |-> "value", pc |-> "append",
                      val |-> val, b |-> <<>>,
                      line |-> <<>>, recv0 |-> ZeroPair, recv |-> ZeroPair,
                      err |-> Nil]
    /\ msg = Idle
    /\ v = Idle
    /\ buf = <<>>
    /\ ref = Idle
    /\ par = Idle
    /\ enc = Idle
    /\ lst = Idle
    /\ input = <<>>
    /\ dec = Idle

\* c.Bytes() / ca.Bytes(): Append(nil)
PairAppend ==
    /\ pair.pc = "append"
    /\ pair' = [pair EXCEPT
                  !.b = IF pair.kind = "Capability"
                        THEN CapabilityAppend(<<>>, pair.val)
                        ELSE CommandArgumentAppend(<<>>, pair.val),
                  !.pc = "scan"]
    /\ UNCHANGED <<msg, v, buf, lst, ref, par, enc, input, dec>>

\* The scanner hands the payload of the unit to Parse.
PairScan ==
    /\ pair.pc = "scan"
    /\ LET r == Scan(pair.b)
       IN  pair' = [pair EXCEPT !.line = r.line, !.err = r.err,
                                !.pc = IF r.err = Nil THEN "parse" ELSE "failed"]
    /\ UNCHANGED <<msg, v, buf, lst, ref, par, enc, input, dec>>

\* c.Parse(line) / ca.Parse(line)
PairParse ==
    /\ pair.pc = "parse"
    /\ LET r == IF pair.kind = "Capability"
                THEN CapabilityParse(pair.recv, pair.line)
                ELSE CommandArgumentParse(pair.recv, pair.line)
       IN  pair' = [pair EXCEPT !.recv = r.c, !.err = r.err, !.pc = "done"]
    /\ UNCHANGED <<msg, v, buf, lst, ref, par, enc, input, dec>>

PairNext == PairAppend \/ PairScan \/ PairParse

SpecPair == PairInit /\ [][PairNext]_vars

(***************************************************************************)
(* What the claims say of a line, stated on the line itself.               *)
(***************************************************************************)
Contains(s, ch) == \E i \in 1..Len(s) : s[i] = ch

EndsWithLF(s) == Len(s) >= 1 /\ s[Len(s)] = LF

DropLast(s) == SubSeq(s, 1, Len(s) - 1)

\* The text before the first ch of s: the whole of s when it holds no ch.
TextBefore(s, ch) ==
    IF Contains(s, ch)
    THEN CHOOSE x \in {SubSeq(s, 1, i) : i \in 0..Len(s)} :
             /\ ~Contains(x, ch)
             /\ Len(x) < Len(s)
             /\ s[Len(x) + 1] = ch
    ELSE s

\* The text after the first ch of s.
TextAfter(s, ch) == SubSeq(s, Len(TextBefore(s, ch)) + 2, Len(s))

ParsedCapability == pair.kind = "Capability" /\ pair.pc = "done"

ParsedArgument == pair.kind = "CommandArgument" /\ pair.pc = "done"

\* The value is one the claim calls valid for a Capability.
ValidCapability(c) ==
    /\ Len(c.Key) > 0
    /\ ~Contains(c.Key, EQ)
    /\ ~Contains(c.Key, LF)
    /\ ~Contains(c.Value, LF)

\* The value is one the claim calls valid for a CommandArgument.
ValidArgument(ca) == Len(ca.Key) > 0 /\ ~Contains(ca.Key, SP)

\* C7: a valid pair rendered by Append and parsed back from the unit's payload
\* into a fresh receiver yields the same key and value, without an error.
C7_PairRoundTrip ==
    (/\ pair.flow = "value"
     /\ pair.pc \in {"done", "failed"}
     /\ IF pair.kind = "Capability"
        THEN ValidCapability(pair.val)
        ELSE ValidArgument(pair.val))
    => pair.err = Nil /\ pair.recv = pair.val

C7_Witness ==
    /\ pair.flow = "value"
    /\ pair.pc = "done"
    /\ pair.kind = "CommandArgument"
    /\ pair.val = [Key |-> <<"k">>, Value |-> <<"v", SP>>]
    /\ pair.recv = pair.val

\* C8: Capability.Parse accepts a line exactly when it ends with a line-feed,
\* the text before the first '=' is not empty and, with a '=', the text after
\* it is not empty; then Key is the text before and Value the text after the
\* first '='; a rejected line yields an error quoting the raw line.
C8_CapabilityAcceptance ==
    ParsedCapability =>
        LET text == DropLast(pair.line)
            accept == /\ EndsWithLF(pair.line)
                      /\ Len(TextBefore(text, EQ)) > 0
                      /\ Contains(text, EQ) => Len(TextAfter(text, EQ)) > 0
        IN  /\ (pair.err = Nil) <=> accept
            /\ accept => pair.recv.Key = TextBefore(text, EQ)
            /\ (accept /\ Contains(text, EQ)) => pair.recv.Value = TextAfter(text, EQ)
            /\ ~accept => pair.err = [kind |-> "invalid capability", text |-> pair.line]

C8_Witness ==
    /\ ParsedCapability
    /\ pair.line = <<"k", EQ, "v", LF>>
    /\ pair.recv = [Key |-> <<"k">>, Value |-> <<"v">>]

\* C9: CommandArgument.Parse strips no line-feed; it rejects a line, with an
\* error quoting it, when the text before the first space is empty or a space
\* is there with nothing after it; otherwise Key is the text before the first
\* space and Value the text after it, empty without a space (in the fresh
\* receiver the list decoder and the tests hand it).
C9_ArgumentAcceptance ==
    ParsedArgument =>
        LET reject == \/ Len(TextBefore(pair.line, SP)) = 0
                      \/ Contains(pair.line, SP) /\ Len(TextAfter(pair.line, SP)) = 0
        IN  /\ (pair.err # Nil) <=> reject
            /\ reject => pair.err = [kind |-> "invalid argument", text |-> pair.line]
            /\ ~reject => pair.recv.Key = TextBefore(pair.line, SP)
            /\ (~reject /\ Contains(pair.line, SP))
                   => pair.recv.Value = TextAfter(pair.line, SP)
            /\ (~reject /\ ~Contains(pair.line, SP) /\ pair.recv0 = ZeroPair)
                   => pair.recv.Value = <<>>

C9_Witness ==
    /\ ParsedArgument
    /\ pair.line = <<"k", LF>>
    /\ pair.recv0 = ZeroPair
    /\ pair.recv = [Key |-> <<"k", LF>>, Value |-> <<>>]

\* C10: whenever Capability.Parse or CommandArgument.Parse returns an error,
\* the receiver is left exactly as it was before the call.
C10_NoPartialResult ==
    [][(pair.pc = "parse" /\ pair'.pc = "done" /\ pair'.err # Nil)
           => pair'.recv = pair.recv]_vars

(***************************************************************************)
(* SpecMsg: one CapabilityAdvertisement.Parse over the units a server      *)
(* sends, or one CommandRequest rendered by Bytes and decoded by Parse.    *)
(***************************************************************************)
LineUnit(line) == [t |-> "line", line |-> line]
FlushUnit == [t |-> "flush", line |-> <<>>]
DelimUnit == [t |-> "delim", line |-> <<>>]

RECURSIVE Wire(_)
\* The bytes of a sequence of units, as the sender frames them.
Wire(units) ==
    IF units = <<>> THEN <<>>
    ELSE (CASE Head(units).t = "flush" -> AppendFlushPkt(<<>>)
            [] Head(units).t = "delim" -> AppendDelimPkt(<<>>)
            [] OTHER -> AppendString(<<>>, Head(units).line))
         \o Wire(Tail(units))

\* The units of an advertisement: the version line, the version line short of
\* its line-feed, capability lines with and
\* without a value (one value holding '=' and a space), a line with an empty
\* value, and the two markers.
AdvUnits ==
    {LineUnit(VersionLine),
     LineUnit(CutSuffix(VersionLine, <<LF>>).rest),
     LineUnit(<<"k", LF>>),
     LineUnit(<<"k", EQ, "v", LF>>),
     LineUnit(<<"v", EQ, "k", EQ, SP, LF>>),
     LineUnit(<<"k", EQ, LF>>),
     FlushUnit, DelimUnit}

\* The capabilities and arguments of a CommandRequest, some of them not valid.
CRCapabilities ==
    {[Key |-> <<"k">>, Value |-> <<>>],
     [Key |-> <<"k">>, Value |-> <<"v", EQ>>],
     [Key |-> <<>>, Value |-> <<"v">>]}

CRArguments ==
    {[Key |-> <<"k">>, Value |-> <<>>],
     [Key |-> <<"k">>, Value |-> <<"v", SP, "v">>],
     [Key |-> <<"k", SP>>, Value |-> <<"v">>]}

CRValues ==
    [Command : {<<"f">>, <<>>},
     Capabilities : StringsUpTo(CRCapabilities, MaxList),
     Arguments : StringsUpTo(CRArguments, MaxList)]

ZeroCR == [Command |-> <<>>, Capabilities |-> <<>>, Arguments |-> <<>>]

MsgInit ==
    /\ \/ \E inp \in StringsUpTo(AdvUnits, MaxAdvUnits) :
              /\ input = inp
              /\ msg = MsgOpen("adv", "version", ZeroCR, Wire(inp))
       \/ \E val \in CRValues :
              /\ input = <<>>
              /\ msg = MsgOpen("cr", "encode", val, <<>>)
    /\ pair = Idle
    /\ v = Idle
    /\ buf = <<>>
    /\ ref = Idle
    /\ par = Idle
    /\ enc = Idle
    /\ lst = Idle
    /\ dec = Idle

AdvVersion ==
    /\ msg.kind = "adv" /\ msg.pc = "version"
    /\ msg' = AdvParseVersion(msg)
    /\ UNCHANGED <<pair, v, buf, lst, ref, par, enc, input, dec>>

AdvCapabilities ==
    /\ msg.kind = "adv" /\ msg.pc = "caps"
    /\ msg' = AdvParseCapabilities(msg)
    /\ UNCHANGED <<pair, v, buf, lst, ref, par, enc, input, dec>>

\* cr.Bytes(), handed to a scanner.
CREncode ==
    /\ msg.kind = "cr" /\ msg.pc = "encode"
    /\ msg' = [msg EXCEPT !.scanner = CommandRequestAppend(<<>>, msg.val),
                          !.pc = "command"]
    /\ UNCHANGED <<pair, v, buf, lst, ref, par, enc, input, dec>>

CRCommand ==
    /\ msg.kind = "cr" /\ msg.pc = "command"
    /\ msg' = CommandRequestParseCommand(msg)
    /\ UNCHANGED <<pair, v, buf, lst, ref, par, enc, input, dec>>

CRCaps ==
    /\ msg.kind = "cr" /\ msg.pc = "caps"
    /\ msg' = CommandRequestParseCapabilities(msg)
    /\ UNCHANGED <<pair, v, buf, lst, ref, par, enc, input, dec>>

CRArgs ==
    /\ msg.kind = "cr" /\ msg.pc = "args"
    /\ msg' = CommandRequestParseArguments(msg)
    /\ UNCHANGED <<pair, v, buf, lst, ref, par, enc, input, dec>>

MsgNext == AdvVersion \/ AdvCapabilities \/ CREncode \/ CRCommand \/ CRCaps \/ CRArgs

SpecMsg == MsgInit /\ [][MsgNext]_vars

\* A capability line as the grammar has it: key LF or key=value LF.
ValidCapabilityLine(line) ==
    /\ EndsWithLF(line)
    /\ Len(TextBefore(DropLast(line), EQ)) > 0
    /\ Contains(DropLast(line), EQ) => Len(TextAfter(DropLast(line), EQ)) > 0

\* The capability such a line stands for.
CapabilityOfLine(line) ==
    [Key |-> TextBefore(DropLast(line), EQ),
     Value |-> IF Contains(DropLast(line), EQ)
               THEN TextAfter(DropLast(line), EQ) ELSE <<>>]

\* The units are an advertisement: version line, capability lines, flush.
IsAdvertisement(units) ==
    /\ Len(units) >= 2
    /\ units[1] = LineUnit(VersionLine)
    /\ units[Len(units)] = FlushUnit
    /\ \A i \in 2..(Len(units) - 1) :
           units[i].t = "line" /\ ValidCapabilityLine(units[i].line)

\* C5: CapabilityAdvertisement.Parse on an advertisement returns no error and
\* yields the capabilities of its lines in wire order, and Bytes() of the
\* parsed value is the input, byte for byte.
C5_AdvertisementRoundTrip ==
    (msg.kind = "adv" /\ msg.pc = "done" /\ IsAdvertisement(input)) =>
        /\ msg.err = Nil
        /\ Len(msg.Capabilities) = Len(input) - 2
        /\ \A i \in 1..Len(msg.Capabilities) :
               msg.Capabilities[i] = CapabilityOfLine(input[i + 1].line)
        /\ CapabilityAdvertisementAppend(<<>>, msg.Capabilities) = Wire(input)

C5_Witness ==
    /\ msg.kind = "adv" /\ msg.pc = "done"
    /\ input = <<LineUnit(VersionLine), LineUnit(<<"v", EQ, "k", EQ, SP, LF>>),
                 LineUnit(<<"k", LF>>), FlushUnit>>
    /\ msg.Capabilities = <<[Key |-> <<"v">>, Value |-> <<"k", EQ, SP>>],
                            [Key |-> <<"k">>, Value |-> <<>>]>>

\* The request is one the claim calls valid.
ValidRequest(cr) ==
    /\ Len(cr.Command) > 0
    /\ \A i \in 1..Len(cr.Capabilities) : ValidCapability(cr.Capabilities[i])
    /\ \A i \in 1..Len(cr.Arguments) : ValidArgument(cr.Arguments[i])

\* C6: CommandRequest.Parse on the bytes of a valid request returns nil, the
\* delimiter after the capabilities and the flush after the arguments being
\* the expected boundaries, and yields its command, capabilities and
\* arguments in order.
C6_CommandRequestDecode ==
    (msg.kind = "cr" /\ msg.pc = "done" /\ ValidRequest(msg.val)) =>
        /\ msg.err = Nil
        /\ msg.scanner = <<>>
        /\ msg.Command = msg.val.Command
        /\ msg.Capabilities = msg.val.Capabilities
        /\ msg.Arguments = msg.val.Arguments

C6_Witness ==
    /\ msg.kind = "cr" /\ msg.pc = "done" /\ msg.err = Nil
    /\ msg.val.Command = <<"f">>
    /\ Len(msg.val.Capabilities) = MaxList
    /\ msg.val.Arguments = <<[Key |-> <<"k">>, Value |-> <<"v", SP, "v">>],
                             [Key |-> <<"k">>, Value |-> <<>>]>>
    /\ msg.Arguments = msg.val.Arguments

(***************************************************************************)
(* The steps of one FetchResponse.Parse call.                              *)
(***************************************************************************)
FetchDispatch ==
    /\ dec.pc = "dispatch"
    /\ dec' = FetchParseDispatch(dec)
    /\ UNCHANGED <<pair, msg, v, buf, lst, ref, par, enc, input>>

FetchAcknowledgements ==
    /\ dec.pc = "acknowledgments"
    /\ dec' = FetchParseAcknowledgements(dec)
    /\ UNCHANGED <<pair, msg, v, buf, lst, ref, par, enc, input>>

FetchShallowInfo ==
    /\ dec.pc = "shallow-info"
    /\ dec' = FetchParseShallowInfo(dec)
    /\ UNCHANGED <<pair, msg, v, buf, lst, ref, par, enc, input>>

FetchWantedRefs ==
    /\ dec.pc = "wanted-refs"
    /\ dec' = FetchParseWantedRefs(dec)
    /\ UNCHANGED <<pair, msg, v, buf, lst, ref, par, enc, input>>

FetchPackfileURIs ==
    /\ dec.pc = "packfile-uris"
    /\ dec' = FetchParsePackfileURIs(dec)
    /\ UNCHANGED <<pair, msg, v, buf, lst, ref, par, enc, input>>

FetchPackfile ==
    /\ dec.pc = "packfile"
    /\ dec' = FetchParsePackfile(dec)
    /\ UNCHANGED <<pair, msg, v, buf, lst, ref, par, enc, input>>

(***************************************************************************)
(* SpecPack: FetchResponse.Parse over a response that holds the packfile   *)
(* section alone: delimiters, the packfile header, side-band units.        *)
(***************************************************************************)
FatalXYZ == <<"f", "a", "t", "a", "l", ":", SP, "x", "y", "z">>

PackUnits ==
    {LineUnit(<<SideBandPackData, "a">>),
     LineUnit(<<SideBandPackData, "b">>),
     LineUnit(<<SideBandProgress, "p">>),
     LineUnit(<<SideBandProgress>>),
     LineUnit(<<SideBandFatal>> \o FatalXYZ),
     LineUnit(<<SideBandOther, "a">>),
     FlushUnit, DelimUnit}

\* The sinks a caller passes: both writing, one of them nil, one of them failing.
SinkPairs ==
    {<<Sink(TRUE, FALSE), Sink(TRUE, FALSE)>>,
     <<Sink(FALSE, FALSE), Sink(TRUE, FALSE)>>,
     <<Sink(TRUE, FALSE), Sink(FALSE, FALSE)>>,
     <<Sink(TRUE, TRUE), Sink(TRUE, FALSE)>>,
     <<Sink(TRUE, FALSE), Sink(TRUE, TRUE)>>}

PackInit ==
    /\ \E lead \in {<<>>, <<DelimUnit>>},
          body \in StringsUpTo(PackUnits, MaxPackUnits),
          sinks \in SinkPairs :
           /\ input = lead \o <<LineUnit(PackfileHeader)>> \o body
           /\ dec = FetchOpen("dispatch", Wire(input), sinks[1], sinks[2])
    /\ pair = Idle
    /\ msg = Idle
    /\ v = Idle
    /\ buf = <<>>
    /\ ref = Idle
    /\ par = Idle
    /\ enc = Idle
    /\ lst = Idle

PackNext == FetchDispatch \/ FetchPackfile

SpecPack == PackInit /\ [][PackNext]_vars

RECURSIVE ChannelPayloads(_, _)
\* The payloads of the units of one channel, in stream order.
ChannelPayloads(units, ch) ==
    IF units = <<>> THEN <<>>
    ELSE (IF Head(units).t = "line" /\ Head(units).line[1] = ch
          THEN <<SubSeq(Head(units).line, 2, Len(Head(units).line))>>
          ELSE <<>>)
         \o ChannelPayloads(Tail(units), ch)

\* The place of the packfile header in the input: after leading delimiters.
HeaderAt(h) ==
    /\ h \in 1..Len(input)
    /\ input[h] = LineUnit(PackfileHeader)
    /\ \A i \in 1..(h - 1) : input[i] = DelimUnit

\* The unit at place p is a side-band unit of channel ch.
OnChannel(p, ch) ==
    p \in 1..Len(input) /\ input[p].t = "line" /\ input[p].line[1] = ch

\* The units h+1 .. p-1 are side-band units of channels 1 and 2.
PayloadUnits(h, p) ==
    \A i \in (h + 1)..(p - 1) :
        OnChannel(i, SideBandPackData) \/ OnChannel(i, SideBandProgress)

\* What a sink has received once the units h+1 .. p-1 went to it.
Received(w, h, p, ch) ==
    w.writes = IF w.present
               THEN ChannelPayloads(SubSeq(input, h + 1, p - 1), ch)
               ELSE <<>>

\* C3 as stated: the error of a channel-3 unit with the payload "fatal: xyz"
\* carries exactly "xyz".
C3_FatalCarriesXYZ ==
    \A h \in 1..Len(input) :
        (/\ dec.pc = "done" /\ HeaderAt(h) /\ dec.pos > h
         /\ PayloadUnits(h, dec.pos)
         /\ input[dec.pos] = LineUnit(<<SideBandFatal>> \o FatalXYZ))
        => dec.err.kind = "fatal" /\ dec.err.text = <<"x", "y", "z">>

\* C3, amended: at a channel-3 unit of the packfile section Parse stops, the
\* error it returns is "fatal: " followed by the whole payload of the unit
\* after the channel byte (for the payload "fatal: xyz" it carries
\* "fatal: xyz", the prefix is not stripped), and the step writes nothing to
\* either sink.
C3_FatalStops ==
    [][\A h \in 1..Len(input) :
           (/\ dec.pc = "packfile" /\ HeaderAt(h) /\ dec.pos >= h
            /\ OnChannel(dec.pos + 1, SideBandFatal))
           => /\ dec'.pc = "done"
              /\ dec'.pos = dec.pos + 1
              /\ dec'.err = [kind |-> "fatal",
                             text |-> SubSeq(input[dec.pos + 1].line, 2,
                                             Len(input[dec.pos + 1].line))]
              /\ dec'.packfile = dec.packfile
              /\ dec'.progress = dec.progress]_vars

C3_Witness ==
    /\ dec.pc = "done"
    /\ dec.pos = Len(input) - 1
    /\ dec.pos = 4
    /\ input[dec.pos] = LineUnit(<<SideBandFatal>> \o FatalXYZ)
    /\ dec.err = [kind |-> "fatal", text |-> FatalXYZ]
    /\ dec.packfile.writes = <<<<"a">>>>
    /\ dec.progress.writes = <<<<"p">>>>

\* C4: in the packfile section, when the units up to the flush are of the
\* channels 1 and 2, the payload sink has received exactly the payloads of
\* the channel-1 units, in stream order, one write per unit, and the progress
\* sink those of the channel-2 units; a unit whose channel byte is none of
\* 1, 2, 3 makes Parse return the invalid-sideband error.
C4_SideBandDemux ==
    \A h \in 1..Len(input) :
        (dec.pc = "done" /\ HeaderAt(h) /\ dec.pos > h /\ PayloadUnits(h, dec.pos))
        => /\ input[dec.pos] = FlushUnit =>
                  /\ dec.err = Nil
                  /\ Received(dec.packfile, h, dec.pos, SideBandPackData)
                  /\ Received(dec.progress, h, dec.pos, SideBandProgress)
           /\ (/\ input[dec.pos].t = "line"
               /\ input[dec.pos].line[1] \notin
                      {SideBandPackData, SideBandProgress, SideBandFatal})
              => dec.err = [kind |-> "invalid sideband", text |-> input[dec.pos].line]

C4_Witness ==
    /\ dec.pc = "done" /\ dec.err = Nil
    /\ input[dec.pos] = FlushUnit
    /\ dec.packfile.writes = <<<<"b">>, <<"a">>>>
    /\ dec.progress.writes = <<<<>>>>

(***************************************************************************)
(* Spec: a FetchResponse value is rendered by Bytes and the bytes, and     *)
(* nothing else, are handed to FetchResponse.Parse on a zero receiver.     *)
(***************************************************************************)
\* Every slice over S of at most MaxSection elements, the nil slice too.
SlicesOf(S) == {NilSlice} \cup {MakeSlice(e) : e \in StringsUpTo(S, MaxSection)}

FetchValues ==
    [Acknowledgements :
         [Ready : BOOLEAN, NAK : BOOLEAN, ACKs : SlicesOf({<<"a">>, <<"b">>})],
     ShallowInfo :
         [Shallow : SlicesOf({[ObjectID |-> <<"a">>]}),
          Unshallow : SlicesOf({[ObjectID |-> <<"b">>]})],
     WantedRefs : SlicesOf({[ObjectID |-> <<"a">>, Name |-> <<"r">>]}),
     PackfileURIs : SlicesOf({[Checksum |-> <<"c">>, URI |-> <<"u">>]})]

Init ==
    /\ v \in FetchValues
    /\ buf = <<>>
    /\ ref = Idle
    /\ par = Idle
    /\ enc = Idle
    /\ lst = Idle
    /\ input = <<>>
    /\ dec = FetchOpen("encode", <<>>, Sink(TRUE, FALSE), Sink(TRUE, FALSE))
    /\ pair = Idle
    /\ msg = Idle

\* b := v.Bytes(); scanner over exactly b
FetchEncode ==
    /\ dec.pc = "encode"
    /\ buf' = FetchResponseBytes(v)
    /\ dec' = [dec EXCEPT !.scanner = buf', !.pc = "dispatch"]
    /\ UNCHANGED <<pair, msg, v, lst, ref, par, enc, input>>

Next ==
    \/ FetchEncode
    \/ FetchDispatch
    \/ FetchAcknowledgements
    \/ FetchShallowInfo
    \/ FetchWantedRefs
    \/ FetchPackfileURIs
    \/ FetchPackfile

Spec == Init /\ [][Next]_vars

RECURSIVE UnitsOf(_)
\* The units a byte stream is made of.
UnitsOf(s) ==
    IF s = <<>> THEN <<>>
    ELSE LET r == Scan(s)
         IN  <<CASE r.err = Nil -> LineUnit(r.line)
                 [] r.err = ErrFlushPkt -> FlushUnit
                 [] r.err = ErrDelimPkt -> DelimUnit
                 [] OTHER -> [t |-> "broken", line |-> <<>>]>>
             \o UnitsOf(r.rest)

\* A NAK ends the response: a value with NAK set holds nothing else to send.
ValidFetchResponse(fr) ==
    fr.Acknowledgements.NAK =>
        /\ ShallowInfoIsZero(fr.ShallowInfo)
        /\ WantedRefsIsZero(fr.WantedRefs)
        /\ PackfileURIsIsZero(fr.PackfileURIs)

\* Equal section by section and element by element; a nil slice and an empty
\* one hold the same elements.
SameFetchResponse(x, y) ==
    /\ x.Acknowledgements.Ready = y.Acknowledgements.Ready
    /\ x.Acknowledgements.NAK = y.Acknowledgements.NAK
    /\ x.Acknowledgements.ACKs.elems = y.Acknowledgements.ACKs.elems
    /\ x.ShallowInfo.Shallow.elems = y.ShallowInfo.Shallow.elems
    /\ x.ShallowInfo.Unshallow.elems = y.ShallowInfo.Unshallow.elems
    /\ x.WantedRefs.elems = y.WantedRefs.elems
    /\ x.PackfileURIs.elems = y.PackfileURIs.elems

\* C1: FetchResponse.Parse on exactly the bytes of v.Bytes() returns no error
\* and leaves a value equal to v.
C1_FetchRoundTrip ==
    (dec.pc = "done" /\ ValidFetchResponse(v)) =>
        dec.err = Nil /\ SameFetchResponse(dec.fr, v)

SectionHeaders ==
    {ShallowInfoHeader, WantedRefsHeader, PackfileURIsHeader, PackfileHeader}

\* The lines "ACK <id>\n" of the ids, in order.
ACKLines(ids) == [i \in 1..Len(ids) |-> ACKPrefix \o ids[i] \o <<LF>>]

\* C2: with Acknowledgements.NAK set, FetchResponse.Append emits the
\* acknowledgments section (its header, ready if set, NAK, the ACK lines),
\* then a flush marker as the next and last unit, and no other marker and no
\* header of shallow-info, wanted-refs, packfile-uris or packfile.
C2_NAKEarlyExit ==
    (dec.pc # "encode" /\ v.Acknowledgements.NAK) =>
        LET units == UnitsOf(buf)
            n == Len(units)
        IN  /\ n >= 3
            /\ units[n] = FlushUnit
            /\ \A i \in 1..(n - 1) :
                   units[i].t = "line" /\ units[i].line \notin SectionHeaders
            /\ [i \in 1..(n - 1) |-> units[i].line]
                   = <<AcknowledgmentsHeader>>
                     \o (IF v.Acknowledgements.Ready THEN <<ReadyLine>> ELSE <<>>)
                     \o <<NAKLine>>
                     \o ACKLines(v.Acknowledgements.ACKs.elems)

C2_Witness ==
    /\ dec.pc # "encode"
    /\ v.Acknowledgements.NAK
    /\ ~v.Acknowledgements.ACKs.nil
    /\ v.ShallowInfo.Shallow.elems # <<>>
    /\ v.WantedRefs.elems # <<>>
    /\ v.PackfileURIs.elems # <<>>
    /\ UnitsOf(buf)[Len(UnitsOf(buf))] = FlushUnit

(***************************************************************************)
(* SpecList: one Capabilities.Parse or CommandArguments.Parse over the     *)
(* units a peer sends, then one Get and one Has on the list it left.       *)
(***************************************************************************)
ListKinds == {"Capabilities", "CommandArguments"}

\* Lines of a list: one key twice with two values, the key in the other case,
\* a key without a value, a line with an empty value, and the two markers.
ListUnits(kind) ==
    IF kind = "Capabilities"
    THEN {LineUnit(<<"k", EQ, "v", LF>>), LineUnit(<<"k", EQ, "w", LF>>),
          LineUnit(<<"K", EQ, "v", LF>>), LineUnit(<<"j", LF>>),
          LineUnit(<<"k", EQ, LF>>), FlushUnit, DelimUnit}
    ELSE {LineUnit(<<"k", SP, "v", LF>>), LineUnit(<<"k", SP, "w">>),
          LineUnit(<<"K", SP, "v", LF>>), LineUnit(<<"j">>),
          LineUnit(<<"k", SP>>), FlushUnit, DelimUnit}

LookupKeys == {<<"k">>, <<"K">>, <<"j">>, <<"x">>}

\* A list decoder over the bytes s, its receiver the nil slice.
ListOpen(kind, s) ==
    [kind |-> kind, pc |-> "parse", scanner |-> s, list |-> <<>>, err |-> Nil,
     pos |-> 0, key |-> <<>>, get |-> [value |-> <<>>, ok |-> FALSE],
     has |-> FALSE]

ListInit ==
    /\ \E kind \in ListKinds :
           \E inp \in StringsUpTo(ListUnits(kind), MaxListUnits) :
               /\ input = inp
               /\ lst = ListOpen(kind, Wire(inp))
    /\ pair = Idle
    /\ msg = Idle
    /\ v = Idle
    /\ buf = <<>>
    /\ ref = Idle
    /\ par = Idle
    /\ enc = Idle
    /\ dec = Idle

\* One turn of the loop of cs.Parse(scanner) / cas.Parse(scanner).
ListParse ==
    /\ lst.pc = "parse"
    /\ LET r == IF lst.kind = "Capabilities"
                THEN CapabilitiesParseStep(lst.list, lst.scanner)
                ELSE CommandArgumentsParseStep(lst.list, lst.scanner)
       IN  lst' = [lst EXCEPT !.list = r.list, !.scanner = r.scanner,
                              !.err = r.err,
                              !.pos = IF lst.scanner = <<>> THEN @ ELSE @ + 1,
                              !.pc = IF r.returned THEN "lookup" ELSE "parse"]
    /\ UNCHANGED <<pair, msg, v, buf, ref, par, enc, input, dec>>

\* value, ok := list.Get(key); has := list.Has(key)
ListLookup ==
    /\ lst.pc = "lookup"
    /\ \E key \in LookupKeys :
           lst' = [lst EXCEPT
                      !.key = key,
                      !.get = IF lst.kind = "Capabilities"
                              THEN CapabilitiesGet(lst.list, key)
                              ELSE CommandArgumentsGet(lst.list, key),
                      !.has = IF lst.kind = "Capabilities"
                              THEN CapabilitiesHas(lst.list, key)
                              ELSE CommandArgumentsHas(lst.list, key),
                      !.pc = "done"]
    /\ UNCHANGED <<pair, msg, v, buf, ref, par, enc, input, dec>>

ListNext == ListParse \/ ListLookup

SpecList == ListInit /\ [][ListNext]_vars

\* The positions of the list holding the key.
PositionsOf(list, key) == {i \in 1..Len(list) : list[i].Key = key}

\* The least element of a non-empty set of numbers.
Least(S) == CHOOSE i \in S : \A j \in S : i <= j

\* C11: Has(key) is true exactly when Get(key) reports found; Get returns the
\* value of the first pair, in list order, whose key is the given key exactly
\* (the case counts), and an empty value with not-found when no pair has it.
C11_LookupConsistency ==
    lst.pc = "done" =>
        /\ lst.has = lst.get.ok
        /\ IF PositionsOf(lst.list, lst.key) = {}
           THEN lst.get = [value |-> <<>>, ok |-> FALSE]
           ELSE lst.get = [value |-> lst.list[Least(PositionsOf(lst.list, lst.key))].Value,
                           ok |-> TRUE]

C11_Witness ==
    /\ lst.pc = "done"
    /\ lst.kind = "Capabilities"
    /\ lst.key = <<"k">>
    /\ lst.list = <<[Key |-> <<"K">>, Value |-> <<"v">>],
                    [Key |-> <<"k">>, Value |-> <<"w">>],
                    [Key |-> <<"k">>, Value |-> <<"v">>]>>
    /\ lst.get = [value |-> <<"w">>, ok |-> TRUE]
    /\ lst.has
\* An argument line as the grammar has it: key, or key SP value.
ValidArgumentLine(line) ==
    /\ Len(TextBefore(line, SP)) > 0
    /\ Contains(line, SP) => Len(TextAfter(line, SP)) > 0

\* The argument such a line stands for.
ArgumentOfLine(line) ==
    [Key |-> TextBefore(line, SP),
     Value |-> IF Contains(line, SP) THEN TextAfter(line, SP) ELSE <<>>]

\* Unit i of the input is a line of the grammar of the list being decoded.
ValidListUnit(i) ==
    /\ input[i].t = "line"
    /\ IF lst.kind = "Capabilities"
       THEN ValidCapabilityLine(input[i].line)
       ELSE ValidArgumentLine(input[i].line)

\* The pair that unit i of the input stands for.
PairOfUnit(i) ==
    IF lst.kind = "Capabilities"
    THEN CapabilityOfLine(input[i].line)
    ELSE ArgumentOfLine(input[i].line)

\* The sentinel of a marker.
SentinelOf(unit) == IF unit.t = "flush" THEN ErrFlushPkt ELSE ErrDelimPkt

\* C12: Capabilities.Parse and CommandArguments.Parse append one pair per
\* unit, in stream order; at the first delimiter or flush marker they stop
\* and return that marker's sentinel; they never return nil, and they consume
\* no unit after the one that made them return.
C12_ListReportsTerminator ==
    /\ lst.pc = "parse" =>
           /\ lst.err = Nil
           /\ Len(lst.list) = lst.pos
           /\ \A i \in 1..lst.pos : ValidListUnit(i) /\ lst.list[i] = PairOfUnit(i)
    /\ lst.pc \in {"lookup", "done"} =>
           /\ lst.err # Nil
           /\ lst.scanner = Wire(SubSeq(input, lst.pos + 1, Len(input)))
           /\ \A t \in 1..Len(input) :
                  (/\ input[t].t \in {"flush", "delim"}
                   /\ \A i \in 1..(t - 1) : ValidListUnit(i))
                  => /\ lst.pos = t
                     /\ lst.err = SentinelOf(input[t])
                     /\ lst.list = [i \in 1..(t - 1) |-> PairOfUnit(i)]

C12_Witness ==
    /\ lst.pc = "lookup"
    /\ lst.kind = "Capabilities"
    /\ input = <<LineUnit(<<"k", EQ, "w", LF>>), LineUnit(<<"j", LF>>), FlushUnit,
                 LineUnit(<<"k", EQ, "v", LF>>)>>
    /\ lst.pos = 3
    /\ lst.err = ErrFlushPkt
    /\ Len(lst.list) = 2
\* C13: CapabilityAdvertisement.Parse fails, reading no further unit and
\* adding no capability, unless the first unit is the line "version 2\n" byte
\* for byte: a first line that differs gives the invalid-protocol-version
\* error carrying the line.  When the first unit is that line, capabilities
\* are decoded until the flush marker and Parse returns nil.
C13_VersionGate ==
    (msg.kind = "adv" /\ msg.pc = "done") =>
        IF input # <<>> /\ input[1] = LineUnit(VersionLine)
        THEN \A t \in 2..Len(input) :
                 (/\ input[t] = FlushUnit
                  /\ \A i \in 2..(t - 1) :
                         input[i].t = "line" /\ ValidCapabilityLine(input[i].line))
                 => /\ msg.err = Nil
                    /\ msg.Capabilities
                           = [i \in 1..(t - 2) |-> CapabilityOfLine(input[i + 1].line)]
                    /\ msg.scanner = Wire(SubSeq(input, t + 1, Len(input)))
        ELSE /\ msg.err # Nil
             /\ msg.Capabilities = <<>>
             /\ msg.scanner = Wire(SubSeq(input, 2, Len(input)))
             /\ (input # <<>> /\ input[1].t = "line") =>
                    msg.err = Errorf("invalid protocol-version", input[1].line)

C13_Witness ==
    /\ msg.kind = "adv" /\ msg.pc = "done"
    /\ input = <<LineUnit(DropLast(VersionLine)), LineUnit(<<"k", LF>>), FlushUnit>>
    /\ msg.err = Errorf("invalid protocol-version", DropLast(VersionLine))
    /\ msg.Capabilities = <<>>

(***************************************************************************)
(* SpecSect: one FetchResponse.Parse over the units a server sends, the    *)
(* sections in whatever order the server chooses.                          *)
(***************************************************************************)
UnknownLine == <<"x", LF>>

\* The five headers, a line that is none of them, one line of each section's
\* body, a unit of packfile data and the two markers.
SectUnits ==
    {LineUnit(AcknowledgmentsHeader), LineUnit(ShallowInfoHeader),
     LineUnit(WantedRefsHeader), LineUnit(PackfileURIsHeader),
     LineUnit(PackfileHeader), LineUnit(UnknownLine),
     LineUnit(NAKLine),
     LineUnit(ShallowPrefix \o <<"a", LF>>),
     LineUnit(UnshallowPrefix \o <<"b", LF>>),
     LineUnit(<<"a", SP, "r", LF>>),
     LineUnit(<<SideBandPackData, "a">>),
     FlushUnit, DelimUnit}

\* The body of an acknowledgments section: ACK, NAK and ready lines, an ACK
\* line short of its line-feed, a line that is none of them, the two markers.
AckUnits ==
    {LineUnit(ACKPrefix \o <<"a", LF>>),
     LineUnit(ACKPrefix \o <<"b", LF>>),
     LineUnit(NAKLine), LineUnit(ReadyLine),
     LineUnit(ACKPrefix \o <<"a">>),
     LineUnit(UnknownLine),
     FlushUnit, DelimUnit}

SectInit ==
    /\ \/ input \in StringsUpTo(SectUnits, MaxSectUnits)
       \/ \E body \in StringsUpTo(AckUnits, MaxAckUnits) :
              input = <<LineUnit(AcknowledgmentsHeader)>> \o body
    /\ dec = FetchOpen("dispatch", Wire(input), Sink(TRUE, FALSE), Sink(TRUE, FALSE))
    /\ pair = Idle
    /\ msg = Idle
    /\ v = Idle
    /\ buf = <<>>
    /\ ref = Idle
    /\ par = Idle
    /\ enc = Idle
    /\ lst = Idle

SectNext ==
    \/ FetchDispatch
    \/ FetchAcknowledgements
    \/ FetchShallowInfo
    \/ FetchWantedRefs
    \/ FetchPackfileURIs
    \/ FetchPackfile

SpecSect == SectInit /\ [][SectNext]_vars
\* The unit is a line that Acknowledgements.Parse takes: any line but an ACK
\* line short of its line-feed.
GoodAckLine(u) ==
    /\ u.t = "line"
    /\ HasPrefix(u.line, ACKPrefix) => EndsWithLF(u.line)

IsACKUnit(u) == u.t = "line" /\ HasPrefix(u.line, ACKPrefix)

\* The object ids of the ACK lines among the units, in stream order.
ACKIdsOf(units) ==
    LET acks == SelectSeq(units, IsACKUnit)
    IN  [i \in 1..Len(acks) |->
            SubSeq(acks[i].line, Len(ACKPrefix) + 1, Len(acks[i].line) - 1)]

\* The receiver holds what the units say: every ACK id in order, NAK and
\* Ready when some unit is that line.
AcksHold(a, units) ==
    /\ a.ACKs.elems = ACKIdsOf(units)
    /\ a.NAK <=> \E i \in 1..Len(units) : units[i] = LineUnit(NAKLine)
    /\ a.Ready <=> \E i \in 1..Len(units) : units[i] = LineUnit(ReadyLine)

\* C14: after an acknowledgments section, a flush marker means the message is
\* complete, Parse returning successfully with the acknowledgements
\* populated; a delimiter followed by a content line makes decoding continue
\* into the next section.
C14_TerminatorAfterAcks ==
    \A t \in 2..Len(input) :
        (/\ input[1] = LineUnit(AcknowledgmentsHeader)
         /\ \A i \in 2..(t - 1) : GoodAckLine(input[i]))
        => /\ (input[t] = FlushUnit /\ dec.pc = "done" /\ dec.pos = t)
              => /\ dec.err = Nil
                 /\ AcksHold(dec.fr.Acknowledgements, SubSeq(input, 2, t - 1))
           /\ (input[t] = DelimUnit /\ t < Len(input) /\ input[t + 1].t = "line")
              => ~(dec.pc = "done" /\ dec.pos = t)

\* C15: in any interleaving of ACK, NAK and ready lines ahead of the section's
\* terminator, Acknowledgements.Parse records every ACK object id in stream
\* order, sets NAK when a NAK line occurred and Ready when a ready line
\* occurred, wherever the lines stand; an ACK line without the trailing
\* line-feed is the invalid-ack error.
C15_AckAccumulation ==
    (input # <<>> /\ input[1] = LineUnit(AcknowledgmentsHeader) /\ dec.pos >= 1) =>
        /\ dec.pc = "acknowledgments" =>
               /\ \A i \in 2..dec.pos : GoodAckLine(input[i])
               /\ AcksHold(dec.fr.Acknowledgements, SubSeq(input, 2, dec.pos))
        /\ dec.pc = "done" =>
               LET stops == {i \in 2..Len(input) : ~GoodAckLine(input[i])}
               IN  IF stops = {}
                   THEN /\ dec.err = EOF
                        /\ AcksHold(dec.fr.Acknowledgements,
                                    SubSeq(input, 2, Len(input)))
                   ELSE /\ dec.pos = Least(stops)
                        /\ AcksHold(dec.fr.Acknowledgements,
                                    SubSeq(input, 2, Least(stops) - 1))
                        /\ dec.err = IF input[Least(stops)].t = "line"
                                     THEN Errorf("invalid ack", input[Least(stops)].line)
                                     ELSE SentinelOf(input[Least(stops)])

C15_Witness ==
    /\ dec.pc = "done"
    /\ input = <<LineUnit(AcknowledgmentsHeader), LineUnit(ACKPrefix \o <<"b", LF>>),
                 LineUnit(ReadyLine), LineUnit(ACKPrefix \o <<"a", LF>>), DelimUnit>>
    /\ dec.fr.Acknowledgements.ACKs.elems = <<<<"b">>, <<"a">>>>
    /\ dec.fr.Acknowledgements.Ready
    /\ ~dec.fr.Acknowledgements.NAK
    /\ dec.err = ErrDelimPkt

\* The unit is a shallow or an unshallow line.
IsShallowUnit(u) ==
    u.t = "line" /\ EndsWithLF(u.line) /\ HasPrefix(u.line, ShallowPrefix)

IsUnshallowUnit(u) ==
    u.t = "line" /\ EndsWithLF(u.line) /\ HasPrefix(u.line, UnshallowPrefix)

\* The object ids of the units, each line less its prefix and its line-feed.
IdsAfter(units, prefix) ==
    [i \in 1..Len(units) |->
        [ObjectID |-> SubSeq(units[i].line, Len(prefix) + 1, Len(units[i].line) - 1)]]

\* C16: in a shallow-info section inside FetchResponse.Parse the shallow and
\* the unshallow lines are collected by prefix, and when the header of the
\* next section (wanted-refs, packfile-uris, packfile) is read the section
\* ends and decoding goes on with that section: Parse does not fail on the
\* header.
C16_SectionHandOver ==
    \A t \in 2..Len(input) :
        (/\ dec.pc = "done"
         /\ input[1] = LineUnit(ShallowInfoHeader)
         /\ \A i \in 2..(t - 1) : IsShallowUnit(input[i]) \/ IsUnshallowUnit(input[i])
         /\ input[t] \in {LineUnit(WantedRefsHeader), LineUnit(PackfileURIsHeader),
                          LineUnit(PackfileHeader)})
        => /\ dec.fr.ShallowInfo.Shallow.elems
                  = IdsAfter(SelectSeq(SubSeq(input, 2, t - 1), IsShallowUnit),
                             ShallowPrefix)
           /\ dec.fr.ShallowInfo.Unshallow.elems
                  = IdsAfter(SelectSeq(SubSeq(input, 2, t - 1), IsUnshallowUnit),
                             UnshallowPrefix)
           /\ dec.err # Errorf("invalid shallow-info", input[t].line)

FiveHeaders == SectionHeaders \cup {AcknowledgmentsHeader}

\* C17: a line read where FetchResponse.Parse expects a section header, and
\* that is none of the five headers, makes it return the unsupported-pkt-line
\* error carrying the raw line; nothing is written to either sink and nothing
\* is added to the receiver.
C17_UnknownSection ==
    [][(/\ dec.pc = "dispatch"
        /\ dec.pos < Len(input)
        /\ input[dec.pos + 1].t = "line"
        /\ input[dec.pos + 1].line \notin FiveHeaders)
       => /\ dec'.pc = "done"
          /\ dec'.err = Errorf("unsupported pkt-line", input[dec.pos + 1].line)
          /\ dec'.pos = dec.pos + 1
          /\ dec'.packfile = dec.packfile
          /\ dec'.progress = dec.progress
          /\ dec'.fr = dec.fr]_vars

C17_Witness ==
    /\ dec.pc = "done"
    /\ input = <<DelimUnit, LineUnit(UnknownLine), LineUnit(PackfileHeader), FlushUnit>>
    /\ dec.pos = 2
    /\ dec.err = Errorf("unsupported pkt-line", UnknownLine)
    /\ dec.packfile.writes = <<>>
    /\ dec.progress.writes = <<>>

\* The place of a section in the documented order.
RankOf(header) ==
    CASE header = AcknowledgmentsHeader -> 1
      [] header = ShallowInfoHeader -> 2
      [] header = WantedRefsHeader -> 3
      [] header = PackfileURIsHeader -> 4
      [] OTHER -> 5

IsHeaderUnit(u) == u.t = "line" /\ u.line \in FiveHeaders

\* The header of the section that unit i of the input stands in.
HeaderOver(i) ==
    input[CHOOSE j \in 1..i :
              /\ IsHeaderUnit(input[j])
              /\ \A k \in (j + 1)..i : ~IsHeaderUnit(input[k])].line

\* Unit i is a line of the body of the section it stands in.
IsBodyUnit(i) ==
    /\ input[i].t = "line"
    /\ ~IsHeaderUnit(input[i])
    /\ CASE HeaderOver(i) = AcknowledgmentsHeader ->
                input[i].line \in {NAKLine, ReadyLine}
                \/ (HasPrefix(input[i].line, ACKPrefix) /\ EndsWithLF(input[i].line))
         [] HeaderOver(i) = ShallowInfoHeader ->
                IsShallowUnit(input[i]) \/ IsUnshallowUnit(input[i])
         [] OTHER -> EndsWithLF(input[i].line) /\ Contains(DropLast(input[i].line), SP)

\* The optional sections of the input end at p - 1, unit p is the packfile
\* header, packfile data follows and the flush marker ends the input; the
\* optional sections are out of the documented order, or one comes twice.
IsReorderedResponse(p) ==
    /\ p \in 2..(Len(input) - 1)
    /\ input[p] = LineUnit(PackfileHeader)
    /\ input[Len(input)] = FlushUnit
    /\ \A i \in (p + 1)..(Len(input) - 1) :
           input[i].t = "line" /\ input[i].line[1] = SideBandPackData
    /\ IsHeaderUnit(input[1])
    /\ \A i \in 1..(p - 1) :
           \/ IsHeaderUnit(input[i]) /\ input[i].line # PackfileHeader
           \/ IsBodyUnit(i)
    /\ \E i, j \in 1..(p - 1) :
           /\ i < j
           /\ IsHeaderUnit(input[i]) /\ IsHeaderUnit(input[j])
           /\ RankOf(input[i].line) >= RankOf(input[j].line)

\* The body lines of the input ahead of unit p that stand under the header.
BodyUnder(header, p) ==
    {i \in 1..(p - 1) : ~IsHeaderUnit(input[i]) /\ HeaderOver(i) = header}

\* C18: a response whose optional sections come out of the documented order,
\* or more than once, followed by the packfile section and the flush marker,
\* is decoded without an error, every occurrence accumulated.
C18_PermissiveOrder ==
    \A p \in 1..Len(input) :
        (dec.pc = "done" /\ IsReorderedResponse(p))
        => /\ dec.err = Nil
           /\ Len(dec.fr.ShallowInfo.Shallow.elems)
                  + Len(dec.fr.ShallowInfo.Unshallow.elems)
                  = Cardinality(BodyUnder(ShallowInfoHeader, p))
           /\ Len(dec.fr.WantedRefs.elems) = Cardinality(BodyUnder(WantedRefsHeader, p))
           /\ Len(dec.fr.PackfileURIs.elems)
                  = Cardinality(BodyUnder(PackfileURIsHeader, p))

(***************************************************************************)
(* What FetchResponse.Append renders, stated on the units of its output.   *)
(***************************************************************************)
\* The places of the units that are the line.
PlacesOf(units, line) == {i \in 1..Len(units) : units[i] = LineUnit(line)}

\* The lines of the body of each section of a value.
AckBody(a) ==
    (IF a.Ready THEN <<ReadyLine>> ELSE <<>>)
    \o (IF a.NAK THEN <<NAKLine>> ELSE <<>>)
    \o ACKLines(a.ACKs.elems)

ShallowBody(si) ==
    [i \in 1..Len(si.Shallow.elems) |->
        ShallowPrefix \o si.Shallow.elems[i].ObjectID \o <<LF>>]
    \o [i \in 1..Len(si.Unshallow.elems) |->
        UnshallowPrefix \o si.Unshallow.elems[i].ObjectID \o <<LF>>]

WantedBody(wrs) ==
    [i \in 1..Len(wrs.elems) |->
        wrs.elems[i].ObjectID \o <<SP>> \o wrs.elems[i].Name \o <<LF>>]

URIBody(pus) ==
    [i \in 1..Len(pus.elems) |->
        pus.elems[i].Checksum \o <<SP>> \o pus.elems[i].URI \o <<LF>>]

\* The header stands once among the units, the lines of the body right after
\* it, and the unit after them is a marker or a header.
Renders(units, header, body) ==
    \E i \in 1..Len(units) :
        /\ PlacesOf(units, header) = {i}
        /\ i + Len(body) < Len(units)
        /\ \A k \in 1..Len(body) : units[i + k] = LineUnit(body[k])
        /\ \/ units[i + Len(body) + 1].t # "line"
           \/ units[i + Len(body) + 1].line \in FiveHeaders

\* Header and body when the section is to be rendered, no header otherwise.
RendersIff(units, rendered, header, body) ==
    IF rendered THEN Renders(units, header, body) ELSE PlacesOf(units, header) = {}

\* C19 as stated: a section is rendered, header then body, only when it is
\* present and non-empty; an absent or an empty section renders nothing.
C19_SectionOmission ==
    dec.pc # "encode" =>
        LET units == UnitsOf(buf)
            a == v.Acknowledgements
            more == ~a.NAK
        IN  /\ RendersIff(units, a.Ready \/ a.NAK \/ a.ACKs.elems # <<>>,
                          AcknowledgmentsHeader, AckBody(a))
            /\ RendersIff(units,
                          more /\ (v.ShallowInfo.Shallow.elems # <<>>
                                   \/ v.ShallowInfo.Unshallow.elems # <<>>),
                          ShallowInfoHeader, ShallowBody(v.ShallowInfo))
            /\ RendersIff(units, more /\ v.WantedRefs.elems # <<>>,
                          WantedRefsHeader, WantedBody(v.WantedRefs))
            /\ RendersIff(units, more /\ v.PackfileURIs.elems # <<>>,
                          PackfileURIsHeader, URIBody(v.PackfileURIs))

\* C19, amended: FetchResponse.Append renders a section, header then body,
\* when the section is present, that is when its list is not nil (for the
\* acknowledgements: when Ready or NAK is set or ACKs is not nil); a present
\* section with zero entries renders its header alone.  An absent section
\* renders nothing, and so does every section after acknowledgements with NAK.
C19_SectionPresence ==
    dec.pc # "encode" =>
        LET units == UnitsOf(buf)
            a == v.Acknowledgements
            more == ~a.NAK
        IN  /\ RendersIff(units, a.Ready \/ a.NAK \/ ~a.ACKs.nil,
                          AcknowledgmentsHeader, AckBody(a))
            /\ RendersIff(units,
                          more /\ (~v.ShallowInfo.Shallow.nil
                                   \/ ~v.ShallowInfo.Unshallow.nil),
                          ShallowInfoHeader, ShallowBody(v.ShallowInfo))
            /\ RendersIff(units, more /\ ~v.WantedRefs.nil,
                          WantedRefsHeader, WantedBody(v.WantedRefs))
            /\ RendersIff(units, more /\ ~v.PackfileURIs.nil,
                          PackfileURIsHeader, URIBody(v.PackfileURIs))

C19_Witness ==
    /\ dec.pc # "encode"
    /\ ~v.Acknowledgements.NAK
    /\ v.Acknowledgements.ACKs.elems # <<>>
    /\ v.ShallowInfo.Shallow.nil /\ v.ShallowInfo.Unshallow.nil
    /\ v.WantedRefs = MakeSlice(<<>>)
    /\ v.PackfileURIs.elems # <<>>
    /\ PlacesOf(UnitsOf(buf), WantedRefsHeader) # {}
    /\ PlacesOf(UnitsOf(buf), ShallowInfoHeader) = {}

\* C20: a ShallowInfo with both lists nil suppresses the shallow-info header
\* in FetchResponse.Append; a ShallowInfo holding a non-nil list of zero
\* entries is not the zero value for IsZero, and its header is rendered, with
\* no line under it.
C20_AbsentVersusEmpty ==
    (dec.pc # "encode" /\ ~v.Acknowledgements.NAK) =>
        LET units == UnitsOf(buf)
            si == v.ShallowInfo
        IN  /\ (si.Shallow.nil /\ si.Unshallow.nil) =>
                   /\ ShallowInfoIsZero(si)
                   /\ PlacesOf(units, ShallowInfoHeader) = {}
            /\ (/\ ~si.Shallow.nil \/ ~si.Unshallow.nil
                /\ si.Shallow.elems = <<>> /\ si.Unshallow.elems = <<>>) =>
                   /\ ~ShallowInfoIsZero(si)
                   /\ Renders(units, ShallowInfoHeader, <<>>)

C20_Witness ==
    /\ dec.pc # "encode"
    /\ ~v.Acknowledgements.NAK
    /\ v.ShallowInfo = [Shallow |-> MakeSlice(<<>>), Unshallow |-> NilSlice]
    /\ Renders(UnitsOf(buf), ShallowInfoHeader, <<>>)

\* C21 as stated: for every FetchResponse value the output of Append holds
\* the packfile header, after the header of every other section emitted.
C21_PackfileMandatory ==
    dec.pc # "encode" =>
        LET units == UnitsOf(buf)
        IN  /\ PlacesOf(units, PackfileHeader) # {}
            /\ \A i \in PlacesOf(units, PackfileHeader), j \in 1..Len(units) :
                   (units[j].t = "line" /\ units[j].line \in FiveHeaders) => j <= i

\* C21, amended: for every FetchResponse value whose Acknowledgements.NAK is
\* not set, the output of Append holds the packfile header once, as its last
\* unit, after every other section emitted; with NAK set the output holds no
\* packfile header and ends with the flush marker.
C21_PackfileLastUnlessNAK ==
    dec.pc # "encode" =>
        LET units == UnitsOf(buf)
        IN  IF v.Acknowledgements.NAK
            THEN /\ PlacesOf(units, PackfileHeader) = {}
                 /\ units[Len(units)] = FlushUnit
            ELSE PlacesOf(units, PackfileHeader) = {Len(units)}

C21_Witness ==
    /\ dec.pc # "encode"
    /\ ~v.Acknowledgements.NAK
    /\ v.Acknowledgements.Ready
    /\ v.ShallowInfo.Unshallow.elems # <<>>
    /\ v.WantedRefs.elems # <<>>
    /\ v.PackfileURIs.elems # <<>>
    /\ PlacesOf(UnitsOf(buf), PackfileHeader) = {Len(UnitsOf(buf))}
    /\ PlacesOf(UnitsOf(buf), PackfileURIsHeader) # {}

(***************************************************************************)
(* Reference and ListReferencesResponse.                                   *)
(***************************************************************************)
ZeroReference == [ObjectID |-> <<>>, Name |-> <<>>, Attributes |-> NilSlice]

RECURSIVE AttributesSize(_)
\* for _, attr := range r.Attributes { sz += len(" ") + len(attr) }
AttributesSize(attrs) ==
    IF attrs = <<>> THEN 0 ELSE 1 + Len(Head(attrs)) + AttributesSize(Tail(attrs))

RECURSIVE AppendAttributes(_, _)
\* for _, attr := range r.Attributes { b = append(b, ' '); b = append(b, attr...) }
AppendAttributes(b, attrs) ==
    IF attrs = <<>> THEN b
    ELSE AppendAttributes(b \o <<SP>> \o Head(attrs), Tail(attrs))

\* Reference.Append leaving the space before each attribute out of the size.
ReferenceAppend_ShortSize(b, r) ==
    LET sz == Len(r.ObjectID) + 1 + Len(r.Name)
              + AttributesSize(r.Attributes.elems) - Len(r.Attributes.elems) + 1
    IN  AppendAttributes(AppendLength(b, sz) \o r.ObjectID \o <<SP>> \o r.Name,
                         r.Attributes.elems)
        \o <<LF>>

\* Reference.Append
ReferenceAppend(b, r) ==
    LET sz == Len(r.ObjectID) + 1 + Len(r.Name)
              + AttributesSize(r.Attributes.elems) + 1
    IN  AppendAttributes(AppendLength(b, sz) \o r.ObjectID \o <<SP>> \o r.Name,
                         r.Attributes.elems)
        \o <<LF>>

RECURSIVE ParseAttributes_SkipEmpty(_, _)
\* The loop of Reference.Parse leaving out an attribute of no bytes.
ParseAttributes_SkipEmpty(attrs, remaining) ==
    LET c == Cut(remaining, SP)
        kept == IF c.before = <<>> THEN attrs ELSE SliceAppend(attrs, c.before)
    IN  IF c.found THEN ParseAttributes_SkipEmpty(kept, c.after) ELSE kept

RECURSIVE ParseAttributes(_, _)
\* The loop `for ok` of Reference.Parse: one attribute per Cut.
ParseAttributes(attrs, remaining) ==
    LET c == Cut(remaining, SP)
    IN  IF c.found
        THEN ParseAttributes(SliceAppend(attrs, c.before), c.after)
        ELSE SliceAppend(attrs, c.before)

\* Reference.Parse failing on a line without a name.
ReferenceParse_NameRequired(r, line) ==
    LET suf == CutSuffix(line, <<LF>>)
        c1 == Cut(suf.rest, SP)
        c2 == Cut(c1.after, SP)
        bad == Errorf("invalid ref", line)
    IN  IF ~suf.found \/ ~c1.found \/ c2.before = <<>> THEN [c |-> r, err |-> bad]
        ELSE [c |-> [ObjectID |-> c1.before, Name |-> c2.before,
                     Attributes |-> IF c2.found
                                    THEN ParseAttributes(r.Attributes, c2.after)
                                    ELSE r.Attributes],
              err |-> Nil]

\* Reference.Parse on the receiver r.
ReferenceParse(r, line) ==
    LET suf == CutSuffix(line, <<LF>>)
        c1 == Cut(suf.rest, SP)
        c2 == Cut(c1.after, SP)
        bad == Errorf("invalid ref", line)
    IN  IF ~suf.found \/ ~c1.found THEN [c |-> r, err |-> bad]
        ELSE [c |-> [ObjectID |-> c1.before, Name |-> c2.before,
                     Attributes |-> IF c2.found
                                    THEN ParseAttributes(r.Attributes, c2.after)
                                    ELSE r.Attributes],
              err |-> Nil]

RECURSIVE AppendReferences(_, _)
\* for _, ref := range lrs.References { b = ref.Append(b) }
AppendReferences(b, refs) ==
    IF refs = <<>> THEN b
    ELSE AppendReferences(ReferenceAppend(b, Head(refs)), Tail(refs))

\* ListReferencesResponse.Append writing over the buffer it is given.
ListReferencesResponseAppend_Overwrite(b, lrs) ==
    AppendFlushPkt(AppendReferences(<<>>, lrs.References.elems))

\* ListReferencesResponse.Append
ListReferencesResponseAppend(b, lrs) ==
    AppendFlushPkt(AppendReferences(b, lrs.References.elems))

\* m[ref.Name] = ref.ObjectID
MapStore(m, name, id) ==
    [x \in DOMAIN m \cup {name} |-> IF x = name THEN id ELSE m[x]]

RECURSIVE MapRange_FirstWins(_, _)
\* The loop of Map keeping the entry a name already has.
MapRange_FirstWins(m, refs) ==
    IF refs = <<>> THEN m
    ELSE MapRange_FirstWins(IF Head(refs).Name \in DOMAIN m THEN m
                            ELSE MapStore(m, Head(refs).Name, Head(refs).ObjectID),
                            Tail(refs))

RECURSIVE MapRange(_, _)
\* for _, ref := range lrs.References { m[ref.Name] = ref.ObjectID }
MapRange(m, refs) ==
    IF refs = <<>> THEN m
    ELSE MapRange(MapStore(m, Head(refs).Name, Head(refs).ObjectID), Tail(refs))

\* ListReferencesResponse.Map
ListReferencesResponseMap(lrs) == MapRange(<<>>, lrs.References.elems)

\* The loop of ListReferencesResponse.Parse ending at a delimiter as it ends
\* at a flush.
ListReferencesResponseParseStep_DelimEnds(lrs, scanner) ==
    LET r == Scan(scanner)
        p == ReferenceParse(ZeroReference, r.line)
    IN  IF r.err # Nil
        THEN [val |-> lrs, scanner |-> r.rest, returned |-> TRUE,
              err |-> IF r.err \in {ErrFlushPkt, ErrDelimPkt} THEN Nil ELSE r.err]
        ELSE IF p.err # Nil
        THEN [val |-> lrs, scanner |-> r.rest, err |-> p.err, returned |-> TRUE]
        ELSE [val |-> [lrs EXCEPT !.References = SliceAppend(@, p.c)],
              scanner |-> r.rest, err |-> Nil, returned |-> FALSE]

\* One iteration of the loop of ListReferencesResponse.Parse; `returned` when
\* the loop returns err, nil at the flush marker.
ListReferencesResponseParseStep(lrs, scanner) ==
    LET r == Scan(scanner)
        p == ReferenceParse(ZeroReference, r.line)
    IN  IF r.err # Nil
        THEN [val |-> lrs, scanner |-> r.rest, returned |-> TRUE,
              err |-> IF r.err = ErrFlushPkt THEN Nil ELSE r.err]
        ELSE IF p.err # Nil
        THEN [val |-> lrs, scanner |-> r.rest, err |-> p.err, returned |-> TRUE]
        ELSE [val |-> [lrs EXCEPT !.References = SliceAppend(@, p.c)],
              scanner |-> r.rest, err |-> Nil, returned |-> FALSE]

(***************************************************************************)
(* SpecRefs: one ListReferencesResponse.Parse over the units a server      *)
(* sends, or over the Bytes() of a value, then one Map of what it left.    *)
(***************************************************************************)
ZeroListReferencesResponse == [References |-> NilSlice]

\* Reference lines: a name twice with two object ids, attributes (one of them
\* of no bytes), a line with an empty name, a line without any space, a line
\* short of its line-feed, and the two markers.
RefUnits ==
    {LineUnit(<<"a", SP, "n", LF>>),
     LineUnit(<<"b", SP, "n", LF>>),
     LineUnit(<<"a", SP, "m", SP, SP, "x", LF>>),
     LineUnit(<<"a", SP, LF>>),
     LineUnit(<<"a", LF>>),
     LineUnit(<<"a", SP, "n">>),
     FlushUnit, DelimUnit}

\* References to encode, some holding a space or an attribute of no bytes.
RefValues ==
    [ObjectID : {<<"a">>, <<>>},
     Name : {<<"n">>, <<>>, <<"n", SP, "m">>},
     Attributes : {NilSlice, MakeSlice(<<>>), MakeSlice(<<<<"x">>>>),
                   MakeSlice(<<<<>>, <<"x">>>>), MakeSlice(<<<<>>>>)}]

\* A decoder over the bytes s, its receiver the zero value.
RefsOpen(pc, val, s) ==
    [pc |-> pc, val |-> val, scanner |-> s, lrs |-> ZeroListReferencesResponse,
     err |-> Nil, pos |-> 0, m |-> <<>>]

RefsInit ==
    /\ \/ \E inp \in StringsUpTo(RefUnits, MaxRefUnits) :
              /\ input = inp
              /\ ref = RefsOpen("parse", ZeroListReferencesResponse, Wire(inp))
       \/ \E refs \in StringsUpTo(RefValues, MaxRefs) :
              /\ input = <<>>
              /\ ref = RefsOpen("encode", [References |-> MakeSlice(refs)], <<>>)
    /\ pair = Idle
    /\ msg = Idle
    /\ v = Idle
    /\ buf = <<>>
    /\ lst = Idle
    /\ par = Idle
    /\ enc = Idle
    /\ dec = Idle

\* lrs.Bytes(), handed to a scanner.
RefsEncode ==
    /\ ref.pc = "encode"
    /\ ref' = [ref EXCEPT !.scanner = ListReferencesResponseAppend(<<>>, ref.val),
                          !.pc = "parse"]
    /\ UNCHANGED <<pair, msg, v, buf, lst, par, enc, input, dec>>

\* One turn of the loop the ListReferencesResponse.Parse call d is in.
RefsParseStep(d) ==
    LET r == ListReferencesResponseParseStep(d.lrs, d.scanner)
    IN  [d EXCEPT !.lrs = r.val, !.scanner = r.scanner, !.err = r.err,
                  !.pos = @ + 1,
                  !.pc = IF r.returned THEN "parsed" ELSE "parse"]

\* One turn of the loop of lrs.Parse(scanner).
RefsParse ==
    /\ ref.pc = "parse"
    /\ ref' = RefsParseStep(ref)
    /\ UNCHANGED <<pair, msg, v, buf, lst, par, enc, input, dec>>

\* m := lrs.Map()
RefsMap ==
    /\ ref.pc = "parsed"
    /\ ref' = [ref EXCEPT !.m = ListReferencesResponseMap(ref.lrs), !.pc = "done"]
    /\ UNCHANGED <<pair, msg, v, buf, lst, par, enc, input, dec>>

RefsNext == RefsEncode \/ RefsParse \/ RefsMap

SpecRefs == RefsInit /\ [][RefsNext]_vars

(***************************************************************************)
(* Reference lines.                                                        *)
(***************************************************************************)
\* The number of spaces of a byte string.
SpacesOf(s) == Cardinality({i \in 1..Len(s) : s[i] = SP})

RECURSIVE JoinSP(_)
\* The strings of a sequence, a space before each.
JoinSP(strs) == IF strs = <<>> THEN <<>> ELSE <<SP>> \o Head(strs) \o JoinSP(Tail(strs))

\* The reference line that carries exactly these fields.
LineOfReference(r) ==
    r.ObjectID \o <<SP>> \o r.Name \o JoinSP(r.Attributes.elems) \o <<LF>>

\* No field of the reference holds a space or a line-feed.
CleanReference(r) ==
    /\ ~Contains(r.ObjectID, SP) /\ ~Contains(r.ObjectID, LF)
    /\ ~Contains(r.Name, SP) /\ ~Contains(r.Name, LF)
    /\ \A i \in 1..Len(r.Attributes.elems) :
           ~Contains(r.Attributes.elems[i], SP) /\ ~Contains(r.Attributes.elems[i], LF)

\* The same reference, a nil list of attributes and an empty one alike.
SameReference(r, q) ==
    /\ r.ObjectID = q.ObjectID
    /\ r.Name = q.Name
    /\ r.Attributes.elems = q.Attributes.elems

\* The decoder was handed the Bytes() of a value.
RefsEncoded == ~ref.val.References.nil

\* C22: Reference.Parse splits a reference line at its spaces and keeps the
\* empty attribute between two adjacent spaces, so decode(encode(r)) is r.
\* Decoding: the k-th reference a listing decoded carries the fields of the
\* k-th line: none of them holds a space, put together again with single
\* spaces and the line-feed they are that line, and there is one attribute
\* for each space after the first.  Round trip: the listing decoded from the
\* Bytes() of references without a space or line-feed in any field ends
\* without an error and holds those references, field by field.
C22_ReferenceDecode ==
    /\ (ref # Idle /\ ~RefsEncoded) =>
           \A k \in 1..Len(ref.lrs.References.elems) :
               LET r == ref.lrs.References.elems[k]
                   line == input[k].line
               IN  /\ input[k].t = "line"
                   /\ ~Contains(r.ObjectID, SP)
                   /\ ~Contains(r.Name, SP)
                   /\ \A i \in 1..Len(r.Attributes.elems) :
                          ~Contains(r.Attributes.elems[i], SP)
                   /\ LineOfReference(r) = line
                   /\ Len(r.Attributes.elems) = SpacesOf(line) - 1
    /\ (ref # Idle /\ RefsEncoded /\ ref.pc \in {"parsed", "done"}
        /\ \A k \in 1..Len(ref.val.References.elems) :
               CleanReference(ref.val.References.elems[k])) =>
           /\ ref.err = Nil
           /\ Len(ref.lrs.References.elems) = Len(ref.val.References.elems)
           /\ \A k \in 1..Len(ref.val.References.elems) :
                  SameReference(ref.lrs.References.elems[k],
                                ref.val.References.elems[k])

\* A reference with an empty attribute went through Bytes() and Parse.
C22_Witness ==
    /\ ref # Idle /\ RefsEncoded /\ ref.pc = "done" /\ ref.err = Nil
    /\ \E k \in 1..Len(ref.lrs.References.elems) :
           \E i \in 1..Len(ref.lrs.References.elems[k].Attributes.elems) :
               ref.lrs.References.elems[k].Attributes.elems[i] = <<>>

\* The first unit is a reference line and Parse has scanned once.
FirstLineRead ==
    /\ ref # Idle /\ ~RefsEncoded /\ ref.pos = 1
    /\ Len(input) >= 1 /\ input[1].t = "line"

\* The line is an object id and the line-feed, nothing between them.
BareObjectID(line) == EndsWithLF(line) /\ ~Contains(line, SP)

\* The line is an object id, the separating space and the line-feed.
ObjectIDAndSpace(line) ==
    /\ EndsWithLF(line) /\ SpacesOf(line) = 1
    /\ Len(line) >= 2 /\ line[Len(line) - 1] = SP

\* Parse took the line as a reference of this object id and no name.
AcceptedWithoutName(id) ==
    /\ ref.err = Nil
    /\ Len(ref.lrs.References.elems) = 1
    /\ ref.lrs.References.elems[1].ObjectID = id
    /\ ref.lrs.References.elems[1].Name = <<>>

\* C23 as stated: Reference.Parse does not fail on a line-feed-terminated
\* line that carries an object id and no name, with or without the space
\* after the object id: it returns nil, ObjectID set and Name empty.
C23_LenientName ==
    FirstLineRead =>
        /\ BareObjectID(input[1].line) =>
               AcceptedWithoutName(DropLast(input[1].line))
        /\ ObjectIDAndSpace(input[1].line) =>
               AcceptedWithoutName(TextBefore(input[1].line, SP))

\* C23 amended: Reference.Parse does not fail on a line of an object id, the
\* separating space and the line-feed: it returns nil, ObjectID set and Name
\* empty.  A line-feed-terminated line without any space is not a reference:
\* Parse returns the error `invalid ref` and the listing gains nothing.
C23_LenientNameAfterSpace ==
    FirstLineRead =>
        /\ ObjectIDAndSpace(input[1].line) =>
               AcceptedWithoutName(TextBefore(input[1].line, SP))
        /\ BareObjectID(input[1].line) =>
               /\ ref.err = Errorf("invalid ref", input[1].line)
               /\ ref.pc \in {"parsed", "done"}
               /\ ref.lrs.References.elems = <<>>

\* Parse has read a line of an object id and a space and taken it.
C23_Witness ==
    /\ FirstLineRead
    /\ ObjectIDAndSpace(input[1].line)
    /\ AcceptedWithoutName(<<"a">>)

(***************************************************************************)
(* The name to object id projection.                                       *)
(***************************************************************************)
\* The places of the listing whose reference carries this name.
PlacesOfName(refs, name) == {k \in 1..Len(refs) : refs[k].Name = name}

\* The greatest of a non-empty set of places.
Greatest(S) == CHOOSE i \in S : \A j \in S : j <= i

\* C24: the result of ListReferencesResponse.Map has the names of References
\* as its keys, no other key, and gives each name the object id of the last
\* reference of that name; the call leaves References as it was.
C24_MapLastWins ==
    /\ [](ref # Idle /\ ref.pc = "done" =>
            LET refs == ref.lrs.References.elems
            IN  /\ DOMAIN ref.m = {refs[k].Name : k \in 1..Len(refs)}
                /\ \A name \in DOMAIN ref.m :
                       ref.m[name] = refs[Greatest(PlacesOfName(refs, name))].ObjectID)
    /\ [][ref # Idle /\ ref.pc = "parsed" => ref'.lrs = ref.lrs]_vars

\* Map ran over a listing where one name came with two object ids.
C24_Witness ==
    /\ ref # Idle /\ ref.pc = "done"
    /\ \E j, k \in 1..Len(ref.lrs.References.elems) :
           /\ j < k
           /\ ref.lrs.References.elems[j].Name = ref.lrs.References.elems[k].Name
           /\ ref.lrs.References.elems[j].ObjectID # ref.lrs.References.elems[k].ObjectID

(***************************************************************************)
(* SpecTerm: one Parse of one of the four messages over raw units: a       *)
(* CapabilityAdvertisement, a CommandRequest, a ListReferencesResponse or  *)
(* a FetchResponse that holds the packfile section.  The decoders of the   *)
(* other messages are not called.                                          *)
(***************************************************************************)
\* The units of a command request: the command line, a capability line, an
\* argument line and the two markers.
CRUnits ==
    {LineUnit(CommandPrefix \o <<"f", LF>>),
     LineUnit(<<"k", LF>>),
     LineUnit(<<"k", SP, "v">>),
     FlushUnit, DelimUnit}

\* Decoders no call runs on.
ClosedMsg == MsgOpen("none", "idle", ZeroCR, <<>>)
ClosedRefs == RefsOpen("idle", ZeroListReferencesResponse, <<>>)
ClosedFetch == FetchOpen("idle", <<>>, Sink(FALSE, FALSE), Sink(FALSE, FALSE))

TermInit ==
    /\ \/ \E inp \in StringsUpTo(AdvUnits, MaxTermUnits) :
              /\ input = inp
              /\ msg = MsgOpen("adv", "version", ZeroCR, Wire(inp))
              /\ ref = ClosedRefs
              /\ dec = ClosedFetch
       \/ \E inp \in StringsUpTo(CRUnits, MaxTermUnits) :
              /\ input = inp
              /\ msg = MsgOpen("cr", "command", ZeroCR, Wire(inp))
              /\ ref = ClosedRefs
              /\ dec = ClosedFetch
       \/ \E inp \in StringsUpTo(RefUnits, MaxTermUnits) :
              /\ input = inp
              /\ msg = ClosedMsg
              /\ ref = RefsOpen("parse", ZeroListReferencesResponse, Wire(inp))
              /\ dec = ClosedFetch
       \/ \E lead \in {<<>>, <<DelimUnit>>},
             body \in StringsUpTo(PackUnits, MaxTermUnits) :
              /\ input = lead \o <<LineUnit(PackfileHeader)>> \o body
              /\ msg = ClosedMsg
              /\ ref = ClosedRefs
              /\ dec = FetchOpen("dispatch", Wire(input),
                                 Sink(TRUE, FALSE), Sink(TRUE, FALSE))
    /\ pair = Idle
    /\ v = Idle
    /\ buf = <<>>
    /\ lst = Idle
    /\ par = Idle
    /\ enc = Idle

TermNext ==
    \/ AdvVersion \/ AdvCapabilities
    \/ CRCommand \/ CRCaps \/ CRArgs
    \/ RefsParse
    \/ FetchDispatch \/ FetchPackfile

SpecTerm == TermInit /\ [][TermNext]_vars

\* The place of the first marker at or after place k, 0 when there is none.
MarkerFrom(units, k) ==
    LET S == {i \in k..Len(units) : units[i].t # "line"}
    IN  IF S = {} THEN 0 ELSE Least(S)

\* The unit at place k is the delimiter (k = 0: no such unit).
DelimAt(units, k) == k > 0 /\ units[k] = DelimUnit

\* The unit at place k is the flush (k = 0: no such unit).
FlushAt(units, k) == k > 0 /\ units[k] = FlushUnit

\* The units at the places i..j are lines that P holds of.
LinesHold(units, i, j, P(_)) ==
    \A n \in i..j : units[n].t = "line" /\ P(units[n].line)

IsCommandLine(line) ==
    /\ EndsWithLF(line)
    /\ Len(line) > Len(CommandPrefix)
    /\ SubSeq(line, 1, Len(CommandPrefix)) = CommandPrefix

IsVersionLine(line) == line = VersionLine

IsReferenceLine(line) == EndsWithLF(line) /\ Contains(line, SP)

\* A side-band line of pack data or progress.
IsDataLine(line) ==
    Len(line) >= 1 /\ line[1] \in {SideBandPackData, SideBandProgress}

\* The place of the packfile header of a response of SpecTerm.
HeaderPlace == Least({k \in 1..Len(input) : input[k] = LineUnit(PackfileHeader)})

\* C25: a marker where the grammar of the message has none is returned as an
\* error.  Once Parse has returned: (1) an advertisement whose first marker
\* is a delimiter, (2) a ref listing whose first marker is a delimiter, (3) a
\* command request whose first marker is a flush, (4) a command request whose
\* first two markers are delimiters, (5) a packfile section whose first
\* marker is a delimiter: each Parse returned a non-nil error, and the
\* marker's own error when every line before the marker is well-formed.
C25_UnexpectedTerminator ==
    /\ (msg.kind = "adv" /\ msg.pc = "done"
        /\ DelimAt(input, MarkerFrom(input, 1))) =>
           LET k == MarkerFrom(input, 1)
           IN  /\ msg.err # Nil
               /\ (k = 1 \/ (LinesHold(input, 1, 1, IsVersionLine)
                             /\ LinesHold(input, 2, k - 1, ValidCapabilityLine)))
                      => msg.err = ErrDelimPkt
    /\ (ref.pc = "parsed" /\ DelimAt(input, MarkerFrom(input, 1))) =>
           LET k == MarkerFrom(input, 1)
           IN  /\ ref.err # Nil
               /\ LinesHold(input, 1, k - 1, IsReferenceLine)
                      => ref.err = ErrDelimPkt
    /\ (msg.kind = "cr" /\ msg.pc = "done"
        /\ FlushAt(input, MarkerFrom(input, 1))) =>
           LET k == MarkerFrom(input, 1)
           IN  /\ msg.err # Nil
               /\ (k = 1 \/ (LinesHold(input, 1, 1, IsCommandLine)
                             /\ LinesHold(input, 2, k - 1, ValidCapabilityLine)))
                      => msg.err = ErrFlushPkt
    /\ (msg.kind = "cr" /\ msg.pc = "done"
        /\ DelimAt(input, MarkerFrom(input, 1))
        /\ DelimAt(input, MarkerFrom(input, MarkerFrom(input, 1) + 1))) =>
           LET k == MarkerFrom(input, 1)
               n == MarkerFrom(input, k + 1)
           IN  /\ msg.err # Nil
               /\ (k > 1 /\ LinesHold(input, 1, 1, IsCommandLine)
                   /\ LinesHold(input, 2, k - 1, ValidCapabilityLine)
                   /\ LinesHold(input, k + 1, n - 1, ValidArgumentLine))
                      => msg.err = ErrDelimPkt
    /\ (dec.pc = "done" /\ DelimAt(input, MarkerFrom(input, HeaderPlace + 1))) =>
           LET n == MarkerFrom(input, HeaderPlace + 1)
           IN  /\ dec.err # Nil
               /\ LinesHold(input, HeaderPlace + 1, n - 1, IsDataLine)
                      => dec.err = ErrDelimPkt

\* ListReferencesResponse.Parse returned at a delimiter after a reference.
C25_Witness ==
    /\ ref.pc = "parsed"
    /\ input = <<LineUnit(<<"a", SP, "n", LF>>), DelimUnit>>
    /\ Len(ref.lrs.References.elems) = 1
    /\ ref.err = ErrDelimPkt

(***************************************************************************)
(* SpecPar: two Parse calls at once, each on its own scanner, receiver and *)
(* sinks, their loop turns interleaved in any order.                       *)
(***************************************************************************)
\* One turn of the loop the FetchResponse.Parse call d is in.
FetchParseStep(d) ==
    CASE d.pc = "dispatch" -> FetchParseDispatch(d)
      [] d.pc = "acknowledgments" -> FetchParseAcknowledgements(d)
      [] d.pc = "shallow-info" -> FetchParseShallowInfo(d)
      [] d.pc = "wanted-refs" -> FetchParseWantedRefs(d)
      [] d.pc = "packfile-uris" -> FetchParsePackfileURIs(d)
      [] d.pc = "packfile" -> FetchParsePackfile(d)

\* A call: which Parse it is and the state it is in.
ParOpen(kind, units) ==
    [kind |-> kind,
     d |-> IF kind = "fetch"
           THEN FetchOpen("dispatch", Wire(units), Sink(TRUE, FALSE), Sink(TRUE, FALSE))
           ELSE RefsOpen("parse", ZeroListReferencesResponse, Wire(units))]

\* The call has returned.
ParReturned(c) == c.d.pc \in {"done", "parsed"}

\* One turn of the loop of the call.
ParStep(c) ==
    [c EXCEPT !.d = IF c.kind = "fetch" THEN FetchParseStep(@) ELSE RefsParseStep(@)]

\* The calls after one turn of call i, had the calls one packfile sink between
\* them.
ParApply_SharedSink(p, i) ==
    LET j == 3 - i
        shares == p[i].kind = "fetch" /\ p[j].kind = "fetch"
        c == ParStep(IF shares
                     THEN [p[i] EXCEPT !.d.packfile.writes =
                               @ \o p[j].d.packfile.writes]
                     ELSE p[i])
    IN  [p EXCEPT ![i] = c]

\* The calls after one turn of call i.
ParApply(p, i) == [p EXCEPT ![i] = ParStep(p[i])]

\* The streams: a fetch response that opens with the packfile header or the
\* acknowledgments header, or a ref listing.
ParFetchUnits ==
    {LineUnit(<<SideBandPackData, "a">>),
     LineUnit(<<SideBandProgress, "p">>),
     FlushUnit}

ParRefUnits == {LineUnit(<<"a", SP, "n", LF>>), FlushUnit}

ParStreams ==
    {[kind |-> "fetch", units |-> <<LineUnit(h)>> \o body] :
         h \in {PackfileHeader, AcknowledgmentsHeader},
         body \in StringsUpTo(ParFetchUnits, MaxParUnits)}
    \cup {[kind |-> "refs", units |-> body] :
              body \in StringsUpTo(ParRefUnits, MaxParUnits)}

ParInit ==
    /\ \E s1, s2 \in ParStreams :
           /\ input = <<s1, s2>>
           /\ par = <<ParOpen(s1.kind, s1.units), ParOpen(s2.kind, s2.units)>>
    /\ pair = Idle
    /\ msg = Idle
    /\ v = Idle
    /\ buf = <<>>
    /\ lst = Idle
    /\ ref = Idle
    /\ enc = Idle
    /\ dec = Idle

\* The scheduler gives the first call one turn.
ParFirst ==
    /\ ~ParReturned(par[1])
    /\ par' = ParApply(par, 1)
    /\ UNCHANGED <<pair, msg, v, buf, lst, ref, enc, input, dec>>

\* The scheduler gives the second call one turn.
ParSecond ==
    /\ ~ParReturned(par[2])
    /\ par' = ParApply(par, 2)
    /\ UNCHANGED <<pair, msg, v, buf, lst, ref, enc, input, dec>>

ParNext == ParFirst \/ ParSecond

SpecPar == ParInit /\ [][ParNext]_vars

RECURSIVE RunAlone(_)
\* The call run to its return with nothing beside it.
RunAlone(c) == IF ParReturned(c) THEN c ELSE RunAlone(ParStep(c))

CapabilityLine(c) ==
    c.Key \o (IF c.Value = <<>> THEN <<>> ELSE <<EQ>> \o c.Value) \o <<LF>>

\* The line of an argument: key, and a space and the value when it has one.
ArgumentLine(a) ==
    a.Key \o (IF a.Value = <<>> THEN <<>> ELSE <<SP>> \o a.Value)

\* C27: the bytes CommandRequest.Append emits are, unit by unit and nothing
\* else: the line "command=<name>" with its line-feed, one line per capability
\* in list order, one delimiter, one line without line-feed per argument in
\* list order, and one flush as the last unit.
C27_CommandRequestLayout ==
    (msg.kind = "cr" /\ msg.pc = "command") =>
        LET cr == msg.val
            units == UnitsOf(msg.scanner)
            nc == Len(cr.Capabilities)
            na == Len(cr.Arguments)
        IN  /\ Len(units) = 1 + nc + 1 + na + 1
            /\ units[1] = LineUnit(CommandPrefix \o cr.Command \o <<LF>>)
            /\ \A i \in 1..nc :
                   units[1 + i] = LineUnit(CapabilityLine(cr.Capabilities[i]))
            /\ units[nc + 2] = DelimUnit
            /\ \A i \in 1..na :
                   units[nc + 2 + i] = LineUnit(ArgumentLine(cr.Arguments[i]))
            /\ units[Len(units)] = FlushUnit
            /\ Wire(units) = msg.scanner

\* A request with capabilities and arguments has been rendered.
C27_Witness ==
    /\ msg.kind = "cr" /\ msg.pc = "command"
    /\ Len(msg.val.Capabilities) = MaxList
    /\ Len(msg.val.Arguments) = MaxList
    /\ msg.val.Arguments[1].Value # <<>>
    /\ msg.scanner # <<>>

(***************************************************************************)
(* SpecEnc: one value of one of the types that have Append and Bytes, and  *)
(* a buffer: Append on the buffer, then Bytes, then Bytes once more.       *)
(***************************************************************************)
EncKinds ==
    {"Capability", "Capabilities", "CommandArgument", "CommandArguments",
     "CapabilityAdvertisement", "CommandRequest", "Reference",
     "ListReferencesResponse", "Acknowledgements", "Shallow", "Unshallow",
     "ShallowInfo", "WantedRef", "WantedRefs", "PackfileURI", "PackfileURIs",
     "FetchResponse"}

\* The values of a string field, the empty string among them.
EncField == StringsUpTo({"a"}, MaxFieldLen)

EncValues(kind) ==
    CASE kind \in {"Capability", "CommandArgument"} -> [Key : EncField, Value : EncField]
      [] kind \in {"Capabilities", "CapabilityAdvertisement"} ->
             StringsUpTo(CRCapabilities, MaxList)
      [] kind = "CommandArguments" -> StringsUpTo(CRArguments, MaxList)
      [] kind = "CommandRequest" -> CRValues
      [] kind = "Reference" ->
             [ObjectID : EncField, Name : EncField,
              Attributes : {NilSlice} \cup
                           {MakeSlice(a) : a \in StringsUpTo(EncField, MaxEncAttrs)}]
      [] kind = "ListReferencesResponse" ->
             [References :
                  SlicesOf({[ObjectID |-> <<"a">>, Name |-> <<"n">>,
                             Attributes |-> NilSlice],
                            [ObjectID |-> <<"b">>, Name |-> <<>>,
                             Attributes |-> MakeSlice(<<<<>>, <<"x">>>>)]})]
      [] kind = "Acknowledgements" ->
             [Ready : BOOLEAN, NAK : BOOLEAN,
              ACKs : {NilSlice} \cup
                     {MakeSlice(a) : a \in StringsUpTo(EncField, MaxList)}]
      [] kind \in {"Shallow", "Unshallow"} -> [ObjectID : EncField]
      [] kind = "ShallowInfo" ->
             [Shallow : SlicesOf({[ObjectID |-> <<"a">>]}),
              Unshallow : SlicesOf({[ObjectID |-> <<"b">>]})]
      [] kind = "WantedRef" -> [ObjectID : EncField, Name : EncField]
      [] kind = "WantedRefs" -> SlicesOf({[ObjectID |-> <<"a">>, Name |-> <<"r">>]})
      [] kind = "PackfileURI" -> [Checksum : EncField, URI : EncField]
      [] kind = "PackfileURIs" -> SlicesOf({[Checksum |-> <<"c">>, URI |-> <<"u">>]})
      [] kind = "FetchResponse" -> FetchValues

\* The buffers Append is given: nil, and one that holds bytes.
EncBuffers == {<<>>, <<"x", "y">>}

\* val.Append(b) of the type.
EntityAppend(kind, b, val) ==
    CASE kind = "Capability" -> CapabilityAppend(b, val)
      [] kind = "Capabilities" -> CapabilitiesAppend(b, val)
      [] kind = "CommandArgument" -> CommandArgumentAppend(b, val)
      [] kind = "CommandArguments" -> CommandArgumentsAppend(b, val)
      [] kind = "CapabilityAdvertisement" -> CapabilityAdvertisementAppend(b, val)
      [] kind = "CommandRequest" -> CommandRequestAppend(b, val)
      [] kind = "Reference" -> ReferenceAppend(b, val)
      [] kind = "ListReferencesResponse" -> ListReferencesResponseAppend(b, val)
      [] kind = "Acknowledgements" -> AcknowledgementsAppend(b, val)
      [] kind = "Shallow" -> ShallowAppend(b, val)
      [] kind = "Unshallow" -> UnshallowAppend(b, val)
      [] kind = "ShallowInfo" -> ShallowInfoAppend(b, val)
      [] kind = "WantedRef" -> WantedRefAppend(b, val)
      [] kind = "WantedRefs" -> WantedRefsAppend(b, val)
      [] kind = "PackfileURI" -> PackfileURIAppend(b, val)
      [] kind = "PackfileURIs" -> PackfileURIsAppend(b, val)
      [] kind = "FetchResponse" -> FetchResponseAppend(b, val)

\* val.Bytes() of the type: return val.Append(nil)
EntityBytes(kind, val) == EntityAppend(kind, <<>>, val)

EncInit ==
    /\ \E kind \in EncKinds :
           \E val \in EncValues(kind), b \in EncBuffers :
               enc = [kind |-> kind, val |-> val, b |-> b, pc |-> "append",
                      out |-> <<>>, bytes |-> <<>>, again |-> <<>>]
    /\ pair = Idle
    /\ msg = Idle
    /\ v = Idle
    /\ buf = <<>>
    /\ lst = Idle
    /\ ref = Idle
    /\ par = Idle
    /\ input = <<>>
    /\ dec = Idle

\* out := val.Append(b)
EncAppend ==
    /\ enc.pc = "append"
    /\ enc' = [enc EXCEPT !.out = EntityAppend(enc.kind, enc.b, enc.val),
                          !.pc = "bytes"]
    /\ UNCHANGED <<pair, msg, v, buf, lst, ref, par, input, dec>>

\* bytes := val.Bytes()
EncBytes ==
    /\ enc.pc = "bytes"
    /\ enc' = [enc EXCEPT !.bytes = EntityBytes(enc.kind, enc.val), !.pc = "again"]
    /\ UNCHANGED <<pair, msg, v, buf, lst, ref, par, input, dec>>

\* again := val.Bytes()
EncAgain ==
    /\ enc.pc = "again"
    /\ enc' = [enc EXCEPT !.again = EntityBytes(enc.kind, enc.val), !.pc = "done"]
    /\ UNCHANGED <<pair, msg, v, buf, lst, ref, par, input, dec>>

EncNext == EncAppend \/ EncBytes \/ EncAgain

SpecEnc == EncInit /\ [][EncNext]_vars

\* The length the four hex digits at the head of the bytes declare.
DeclaredLength(s) ==
    HexVal(s[1]) * 4096 + HexVal(s[2]) * 256 + HexVal(s[3]) * 16 + HexVal(s[4])

RECURSIVE FramesHold(_, _)
\* The bytes are these payloads, one framed unit each, the header of each
\* unit declaring 4 and the byte count of its payload.
FramesHold(s, payloads) ==
    IF payloads = <<>> THEN s = <<>>
    ELSE LET n == Len(Head(payloads))
         IN  /\ Len(s) >= 4 + n
             /\ \A i \in 1..4 : IsHex(s[i])
             /\ DeclaredLength(s) = 4 + n
             /\ SubSeq(s, 5, 4 + n) = Head(payloads)
             /\ FramesHold(SubSeq(s, 5 + n, Len(s)), Tail(payloads))

\* The payloads of the units the encoders that compute a length emit.
PayloadsOf(kind, val) ==
    CASE kind = "Capability" -> <<CapabilityLine(val)>>
      [] kind = "Reference" -> <<LineOfReference(val)>>
      [] kind = "Acknowledgements" -> <<AcknowledgmentsHeader>> \o AckBody(val)
      [] kind = "Shallow" -> <<ShallowPrefix \o val.ObjectID \o <<LF>>>>
      [] kind = "Unshallow" -> <<UnshallowPrefix \o val.ObjectID \o <<LF>>>>
      [] kind = "WantedRef" -> <<val.ObjectID \o <<SP>> \o val.Name \o <<LF>>>>
      [] kind = "PackfileURI" -> <<val.Checksum \o <<SP>> \o val.URI \o <<LF>>>>

\* The encoders that compute the length of a unit themselves.
SizingKinds ==
    {"Capability", "Reference", "Acknowledgements", "Shallow", "Unshallow",
     "WantedRef", "PackfileURI"}

\* C28: in the encoders that compute a length themselves, what Append adds
\* to the buffer is framed units whose four hex digits declare 4 plus the
\* count of the payload bytes that follow them, empty fields and any number
\* of attributes included.
C28_DeclaredFrameLength ==
    (enc # Idle /\ enc.pc # "append" /\ enc.kind \in SizingKinds) =>
        /\ Len(enc.out) >= Len(enc.b)
        /\ FramesHold(SubSeq(enc.out, Len(enc.b) + 1, Len(enc.out)),
                      PayloadsOf(enc.kind, enc.val))

\* A Reference of empty name with two attributes, one of them empty, is framed.
C28_Witness ==
    /\ enc # Idle /\ enc.pc = "done" /\ enc.kind = "Reference"
    /\ enc.val.Name = <<>>
    /\ enc.val.Attributes.elems = <<<<>>, <<"a">>>>
    /\ enc.b # <<>>
    /\ DeclaredLength(enc.bytes) = Len(enc.bytes)

\* C29: Append(b) returns b followed by exactly Bytes(), for every type and
\* buffer; rendering twice gives the same bytes; neither call changes the
\* value or the bytes of the buffer it was given.
C29_PureAppend ==
    /\ [](enc # Idle =>
            /\ enc.pc \in {"again", "done"} => enc.out = enc.b \o enc.bytes
            /\ enc.pc = "done" => enc.again = enc.bytes)
    /\ [][enc # Idle => enc'.val = enc.val /\ enc'.b = enc.b]_vars

\* A FetchResponse with sections was appended to a buffer that held bytes and
\* rendered twice.
C29_Witness ==
    /\ enc # Idle /\ enc.pc = "done" /\ enc.kind = "FetchResponse"
    /\ enc.b # <<>>
    /\ ~enc.val.Acknowledgements.NAK
    /\ enc.val.WantedRefs.elems # <<>>
    /\ Len(enc.bytes) > 0

(***************************************************************************)
(* SpecFull: FetchResponse.Parse over raw units of every kind: section     *)
(* headers and lines, side-band units of both channels, markers.           *)
(***************************************************************************)
FullUnits == SectUnits \cup {LineUnit(<<SideBandProgress, "p">>)}

FullInit ==
    /\ input \in StringsUpTo(FullUnits, MaxFullUnits)
    /\ dec = FetchOpen("dispatch", Wire(input), Sink(TRUE, FALSE), Sink(TRUE, FALSE))
    /\ pair = Idle
    /\ msg = Idle
    /\ v = Idle
    /\ buf = <<>>
    /\ lst = Idle
    /\ ref = Idle
    /\ par = Idle
    /\ enc = Idle

SpecFull == FullInit /\ [][SectNext]_vars

\* Delimiters, then the packfile header, then side-band units of pack data
\* and progress, then a flush, and nothing else.
IsPackfileStream(units) ==
    /\ Len(units) >= 2
    /\ units[Len(units)] = FlushUnit
    /\ \E h \in 1..(Len(units) - 1) :
           /\ \A i \in 1..(h - 1) : units[i] = DelimUnit
           /\ units[h] = LineUnit(PackfileHeader)
           /\ LinesHold(units, h + 1, Len(units) - 1, IsDataLine)

\* The place of the first unit that is not a delimiter, 0 when there is none.
FirstRead(units) ==
    LET S == {i \in 1..Len(units) : units[i] # DelimUnit}
    IN  IF S = {} THEN 0 ELSE Least(S)

\* The first unit read at the top level is the header of one of the four
\* sections that have a decoder of their own.
SectionHeaderRead(units) ==
    /\ FirstRead(units) > 0
    /\ units[FirstRead(units)].t = "line"
    /\ units[FirstRead(units)].line \in FiveHeaders \ {PackfileHeader}

SinkUnits ==
    {LineUnit(PackfileHeader), LineUnit(AcknowledgmentsHeader),
     LineUnit(<<SideBandPackData, "a">>),
     LineUnit(<<SideBandProgress, "p">>),
     LineUnit(<<SideBandFatal>> \o FatalXYZ),
     LineUnit(<<SideBandOther, "a">>),
     FlushUnit, DelimUnit}

SinkInit ==
    /\ \E inp \in StringsUpTo(SinkUnits, MaxSinkUnits), sinks \in SinkPairs :
           /\ input = inp
           /\ dec = FetchOpen("dispatch", Wire(inp), sinks[1], sinks[2])
    /\ pair = Idle
    /\ msg = Idle
    /\ v = Idle
    /\ buf = <<>>
    /\ lst = Idle
    /\ ref = Idle
    /\ par = Idle
    /\ enc = Idle

SinkNext == FetchDispatch \/ FetchAcknowledgements \/ FetchPackfile

SpecSink == SinkInit /\ [][SinkNext]_vars

\* The unit at place p ends the packfile loop: the input is over, or the unit
\* is the flush, a channel-3 unit, a unit of no side-band channel, or a unit
\* for a sink whose Write fails.
EndsPackfileLoop(p) ==
    \/ p > Len(input)
    \/ input[p] = FlushUnit
    \/ OnChannel(p, SideBandFatal)
    \/ /\ input[p].t = "line"
       /\ input[p].line[1] \notin {SideBandPackData, SideBandProgress, SideBandFatal}
    \/ OnChannel(p, SideBandPackData) /\ dec.packfile.present /\ dec.packfile.failing
    \/ OnChannel(p, SideBandProgress) /\ dec.progress.present /\ dec.progress.failing

Writing(w) == w.present /\ ~w.failing

\* The sink of the unit at place p is there and its Write fails.
FailingWriteAt(p) ==
    \/ OnChannel(p, SideBandPackData) /\ dec.packfile.present /\ dec.packfile.failing
    \/ OnChannel(p, SideBandProgress) /\ dec.progress.present /\ dec.progress.failing

\* The sink of the unit at place p is nil.
NilSinkAt(p) ==
    \/ OnChannel(p, SideBandPackData) /\ ~dec.packfile.present
    \/ OnChannel(p, SideBandProgress) /\ ~dec.progress.present

\* C32: in the packfile loop a Write that returns an error makes Parse return
\* that error in the same turn.  A unit for a nil sink is read and dropped:
\* the turn writes nothing and the loop goes on.  With one sink nil and the
\* other writing, and units of the channels 1 and 2 up to the flush, Parse
\* returns nil at the flush, the nil sink has got nothing and the other sink
\* the payloads of its channel, every one and in stream order.
C32_SinkHandling ==
    /\ [][(dec.pc = "packfile" /\ FailingWriteAt(dec.pos + 1)) =>
              /\ dec'.pc = "done"
              /\ dec'.err = ErrWrite
              /\ dec'.pos = dec.pos + 1]_vars
    /\ [][(dec.pc = "packfile" /\ NilSinkAt(dec.pos + 1)) =>
              /\ dec'.pc = "packfile"
              /\ dec'.err = Nil
              /\ dec'.pos = dec.pos + 1
              /\ dec'.packfile = dec.packfile
              /\ dec'.progress = dec.progress]_vars
    /\ [](\A h \in 1..Len(input) :
            (/\ dec.pc = "done" /\ HeaderAt(h) /\ dec.pos > h
             /\ PayloadUnits(h, dec.pos) /\ input[dec.pos] = FlushUnit) =>
                LET units == SubSeq(input, h + 1, dec.pos - 1)
                IN  /\ (~dec.packfile.present /\ Writing(dec.progress)) =>
                           /\ dec.err = Nil
                           /\ dec.packfile.writes = <<>>
                           /\ dec.progress.writes =
                                  ChannelPayloads(units, SideBandProgress)
                    /\ (~dec.progress.present /\ Writing(dec.packfile)) =>
                           /\ dec.err = Nil
                           /\ dec.progress.writes = <<>>
                           /\ dec.packfile.writes =
                                  ChannelPayloads(units, SideBandPackData))

\* With a nil payload sink Parse went over a pack-data unit between two
\* progress units and returned nil at the flush.
C32_Witness ==
    /\ dec.pc = "done" /\ dec.err = Nil
    /\ ~dec.packfile.present
    /\ input = <<LineUnit(PackfileHeader),
                 LineUnit(<<SideBandProgress, "p">>),
                 LineUnit(<<SideBandPackData, "a">>),
                 LineUnit(<<SideBandProgress>>),
                 FlushUnit>>
    /\ dec.progress.writes = <<<<"p">>, <<>>>>

(***************************************************************************)
(* SpecLive: one Parse of one of the four messages over a finite stream of *)
(* raw units, run by its caller without a pause until it returns.          *)
(***************************************************************************)
\* The units of the streams: for each message its lines, a line it does not
\* take, and the two markers.
LiveAdvUnits ==
    {LineUnit(VersionLine), LineUnit(<<"k", LF>>), LineUnit(<<"k", EQ, "v", LF>>),
     FlushUnit, DelimUnit}

LiveRefUnits ==
    {LineUnit(<<"a", SP, "n", LF>>), LineUnit(<<"a", LF>>), FlushUnit, DelimUnit}

LiveInit ==
    /\ \/ \E inp \in StringsUpTo(LiveAdvUnits, MaxLiveUnits) :
              /\ input = inp
              /\ msg = MsgOpen("adv", "version", ZeroCR, Wire(inp))
              /\ ref = ClosedRefs
              /\ dec = ClosedFetch
       \/ \E inp \in StringsUpTo(CRUnits, MaxLiveUnits) :
              /\ input = inp
              /\ msg = MsgOpen("cr", "command", ZeroCR, Wire(inp))
              /\ ref = ClosedRefs
              /\ dec = ClosedFetch
       \/ \E inp \in StringsUpTo(LiveRefUnits, MaxLiveUnits) :
              /\ input = inp
              /\ msg = ClosedMsg
              /\ ref = RefsOpen("parse", ZeroListReferencesResponse, Wire(inp))
              /\ dec = ClosedFetch
       \/ \E inp \in StringsUpTo(FullUnits, MaxLiveUnits) :
              /\ input = inp
              /\ msg = ClosedMsg
              /\ ref = ClosedRefs
              /\ dec = FetchOpen("dispatch", Wire(inp),
                                 Sink(TRUE, FALSE), Sink(TRUE, FALSE))
    /\ pair = Idle
    /\ v = Idle
    /\ buf = <<>>
    /\ lst = Idle
    /\ par = Idle
    /\ enc = Idle

LiveNext ==
    \/ AdvVersion \/ AdvCapabilities
    \/ CRCommand \/ CRCaps \/ CRArgs
    \/ RefsParse
    \/ FetchDispatch
    \/ FetchAcknowledgements \/ FetchShallowInfo
    \/ FetchWantedRefs \/ FetchPackfileURIs
    \/ FetchPackfile

\* The call is a loop on the caller's stack: as long as it has not returned
\* it takes its next turn.
SpecLive == LiveInit /\ [][LiveNext]_vars /\ WF_vars(LiveNext)

\* The Parse that was called has returned.
LiveReturned ==
    /\ msg.pc \in {"done", "idle"}
    /\ ref.pc \in {"parsed", "idle"}
    /\ dec.pc \in {"done", "idle"}

\* The bytes the scanner of the Parse that was called has yet to give out.
LiveScanner ==
    IF msg.pc # "idle" THEN msg.scanner
    ELSE IF ref.pc # "idle" THEN ref.scanner
    ELSE dec.scanner

\* C33: on a finite stream each of FetchResponse.Parse, CommandRequest.Parse,
\* CapabilityAdvertisement.Parse and ListReferencesResponse.Parse returns in
\* the end; every turn of a loop, the top-level turn at a delimiter too,
\* takes exactly one unit from the scanner, and a turn on a scanner with no
\* unit left is the one that returns.
C33_Termination ==
    /\ <>LiveReturned
    /\ [][IF LiveScanner # <<>>
          THEN UnitsOf(LiveScanner') = Tail(UnitsOf(LiveScanner))
          ELSE LiveScanner' = <<>> /\ LiveReturned']_vars

\* FetchResponse.Parse returned after a turn at a delimiter, one at the
\* header and one on the scanner with no unit left.
C33_Witness ==
    /\ dec.pc = "done" /\ dec.err = EOF
    /\ input = <<DelimUnit, LineUnit(PackfileHeader)>>
    /\ dec.pos = 2
    /\ dec.scanner = <<>>

\* C34: the receiver after a Parse that accepted its line depends on the line
\* alone: it is what the same Parse leaves in a zero-value receiver, so a line
\* without a value leaves Value empty whatever the receiver held.
C34_InputOnly ==
    [][(pair.pc = "parse" /\ pair'.pc = "done" /\ pair'.err = Nil)
           => pair'.recv = IF pair.kind = "Capability"
                           THEN CapabilityParse(ZeroPair, pair.line).c
                           ELSE CommandArgumentParse(ZeroPair, pair.line).c]_vars

\* The unit the acknowledgments loop reads in its next turn is a line.
AckTurnAtLine ==
    /\ dec.pc = "acknowledgments"
    /\ dec.pos < Len(input)
    /\ input[dec.pos + 1].t = "line"

\* The line is an ACK line, "NAK\n" or "ready\n".
RecognisedAckLine(line) ==
    \/ HasPrefix(line, ACKPrefix) /\ EndsWithLF(line)
    \/ line \in {NAKLine, ReadyLine}

\* The turn took the unit and went on with Ready, NAK and ACKs as they were.
AckLineIgnored ==
    /\ dec'.pc = "acknowledgments"
    /\ dec'.err = Nil
    /\ dec'.pos = dec.pos + 1
    /\ UnitsOf(dec'.scanner) = Tail(UnitsOf(dec.scanner))
    /\ dec'.fr = dec.fr

\* C35 as stated: every line of the acknowledgments section that is not an
\* ACK line, "NAK\n" or "ready\n" is consumed and ignored, and the section
\* ends only when the scanner returns a sentinel or a fault.
C35_NeverRejects ==
    /\ [][(AckTurnAtLine /\ ~RecognisedAckLine(input[dec.pos + 1].line))
              => AckLineIgnored]_vars
    /\ [][(dec.pc = "acknowledgments" /\ dec'.pc # "acknowledgments")
              => ~AckTurnAtLine]_vars

\* C35: every line of the acknowledgments section that does not begin with
\* "ACK " and is neither "NAK\n" nor "ready\n", another section's header
\* too, is consumed and ignored, leaving Ready, NAK and ACKs as they were; the
\* section ends only when the scanner returns a sentinel or a fault, or at a
\* line that begins with "ACK " and lacks its line-feed, which is returned as
\* an invalid-ack error.
C35_IgnoresUnknown ==
    /\ [][(/\ AckTurnAtLine
           /\ ~HasPrefix(input[dec.pos + 1].line, ACKPrefix)
           /\ input[dec.pos + 1].line \notin {NAKLine, ReadyLine})
              => AckLineIgnored]_vars
    /\ [][(dec.pc = "acknowledgments" /\ dec'.pc # "acknowledgments"
           /\ AckTurnAtLine)
              => /\ HasPrefix(input[dec.pos + 1].line, ACKPrefix)
                 /\ ~EndsWithLF(input[dec.pos + 1].line)
                 /\ dec'.pc = "done"
                 /\ dec'.err = Errorf("invalid ack", input[dec.pos + 1].line)
                 /\ dec'.fr = dec.fr]_vars

\* The header of another section was read inside the acknowledgments section
\* and ignored, and the NAK line after it was taken.
C35_Witness ==
    /\ input = <<LineUnit(AcknowledgmentsHeader), LineUnit(ShallowInfoHeader),
                 LineUnit(NAKLine)>>
    /\ dec.pc = "acknowledgments"
    /\ dec.pos = 3
    /\ dec.fr.Acknowledgements = [ZeroAcknowledgements EXCEPT !.NAK = TRUE]
    /\ dec.fr.ShallowInfo = ZeroShallowInfo

(***************************************************************************)
(* SpecCli: the main of git-v2-fetch from its parsed flags to the request   *)
(* it posts, or to its exit without one.                                   *)
(***************************************************************************)
ArgumentWant == <<"w", "a", "n", "t">>
ArgumentHave == <<"h", "a", "v", "e">>
ArgumentDone == <<"d", "o", "n", "e">>
ArgumentThinPack == <<"t", "h", "i", "n", "-", "p", "a", "c", "k">>
ArgumentNoProgress == <<"n", "o", "-", "p", "r", "o", "g", "r", "e", "s", "s">>
ArgumentIncludeTag == <<"i", "n", "c", "l", "u", "d", "e", "-", "t", "a", "g">>
ArgumentOFSDelta == <<"o", "f", "s", "-", "d", "e", "l", "t", "a">>
ArgumentShallow == <<"s", "h", "a", "l", "l", "o", "w">>
ArgumentDeepen == <<"d", "e", "e", "p", "e", "n">>
ArgumentDeepenRelative ==
    <<"d", "e", "e", "p", "e", "n", "-", "r", "e", "l", "a", "t", "i", "v", "e">>
ArgumentDeepenSince ==
    <<"d", "e", "e", "p", "e", "n", "-", "s", "i", "n", "c", "e">>
ArgumentDeepenNot == <<"d", "e", "e", "p", "e", "n", "-", "n", "o", "t">>
ArgumentFilter == <<"f", "i", "l", "t", "e", "r">>
ArgumentWantRef == <<"w", "a", "n", "t", "-", "r", "e", "f">>
ArgumentPackfileURIs ==
    <<"p", "a", "c", "k", "f", "i", "l", "e", "-", "u", "r", "i", "s">>
ArgumentWaitForDone ==
    <<"w", "a", "i", "t", "-", "f", "o", "r", "-", "d", "o", "n", "e">>

FetchCommand == <<"f", "e", "t", "c", "h">>

\* The flags that are given or not, each with one value when given.
CliOptions ==
    {"thin-pack", "no-progress", "include-tag", "ofs-delta", "shallow", "deepen",
     "deepen-relative", "deepen-since", "deepen-not", "filter", "packfile-uris",
     "stdin", "capability"}

\* The command lines: lists of wants, haves and want-refs, no option, one
\* option or all of them, the positional argument given or not, and the
\* lines on the standard input.
CliFlags ==
    [want : StringsUpTo({<<"a">>}, MaxCliList),
     have : StringsUpTo({<<"b">>}, MaxCliList),
     wantRefs : StringsUpTo({<<"r">>}, MaxCliList),
     given : {o \in SUBSET CliOptions : Cardinality(o) <= 1 \/ o = CliOptions},
     narg : {0, 1},
     text : {<<>>, <<<<"c", SP, "n">>>>, <<<<"c", SP, "n">>, <<"d">>>>}]

\* The values of the options that take one.
CliShallows(f) == IF "shallow" \in f.given THEN <<<<"s">>>> ELSE <<>>

CliPackfileURIs(f) ==
    IF "packfile-uris" \in f.given THEN <<<<"h">>, <<"i">>>> ELSE <<>>

CliCapabilities(f) ==
    IF "capability" \in f.given THEN <<<<"k", EQ, "v">>, <<"o">>>> ELSE <<>>

CliString(f, o) == IF o \in f.given THEN <<"1">> ELSE <<>>

RECURSIVE Join(_, _)
\* strings.Join(elems, sep)
Join(elems, sep) ==
    IF elems = <<>> THEN <<>>
    ELSE IF Len(elems) = 1 THEN Head(elems)
    ELSE Head(elems) \o sep \o Join(Tail(elems), sep)

\* The keys of the map uniq after the loop over the lines of the standard input.
StdinOids(text) == {Cut(text[i], SP).before : i \in 1..Len(text)}

\* The orders in which `for oid := range uniq` may give out the keys.
RangeOrders(uniq) ==
    {o \in [1..Cardinality(uniq) -> uniq] :
        \A i, j \in 1..Cardinality(uniq) : o[i] = o[j] => i = j}

\* One argument for each element of a list flag.
ArgumentsOf(key, values) ==
    [i \in 1..Len(values) |-> [Key |-> key, Value |-> values[i]]]

\* One argument without a value for a flag that was set.
ArgumentIf(cond, key) ==
    IF cond THEN <<[Key |-> key, Value |-> <<>>]>> ELSE <<>>

\* One argument with the value of a string flag that is not empty.
ArgumentWith(key, value) ==
    IF value # <<>> THEN <<[Key |-> key, Value |-> value]>> ELSE <<>>

\* for _, cap := range *capabilities: strings.Cut(cap, "=")
CapabilitiesOf(caps) ==
    [i \in 1..Len(caps) |->
        [Key |-> Cut(caps[i], EQ).before, Value |-> Cut(caps[i], EQ).after]]

\* The request of main with the wants sent ahead of the haves.
FetchMainRequest_WantsFirst(f, want) ==
    [Command |-> FetchCommand,
     Capabilities |-> CapabilitiesOf(CliCapabilities(f)),
     Arguments |->
        <<[Key |-> ArgumentWaitForDone, Value |-> <<>>]>>
        \o ArgumentIf("thin-pack" \in f.given, ArgumentThinPack)
        \o ArgumentIf("no-progress" \in f.given, ArgumentNoProgress)
        \o ArgumentIf("include-tag" \in f.given, ArgumentIncludeTag)
        \o ArgumentIf("ofs-delta" \in f.given, ArgumentOFSDelta)
        \o ArgumentsOf(ArgumentShallow, CliShallows(f))
        \o ArgumentWith(ArgumentDeepen, CliString(f, "deepen"))
        \o ArgumentIf("deepen-relative" \in f.given, ArgumentDeepenRelative)
        \o ArgumentWith(ArgumentDeepenSince, CliString(f, "deepen-since"))
        \o ArgumentWith(ArgumentDeepenNot, CliString(f, "deepen-not"))
        \o ArgumentWith(ArgumentFilter, CliString(f, "filter"))
        \o ArgumentsOf(ArgumentWantRef, f.wantRefs)
        \o ArgumentWith(ArgumentPackfileURIs, Join(CliPackfileURIs(f), <<",">>))
        \o ArgumentsOf(ArgumentWant, want)
        \o ArgumentsOf(ArgumentHave, f.have)
        \o <<[Key |-> ArgumentDone, Value |-> <<>>]>>]

\* main: the request built from the flags f and the wants.
FetchMainRequest(f, want) ==
    [Command |-> FetchCommand,
     Capabilities |-> CapabilitiesOf(CliCapabilities(f)),
     Arguments |->
        <<[Key |-> ArgumentWaitForDone, Value |-> <<>>]>>
        \o ArgumentIf("thin-pack" \in f.given, ArgumentThinPack)
        \o ArgumentIf("no-progress" \in f.given, ArgumentNoProgress)
        \o ArgumentIf("include-tag" \in f.given, ArgumentIncludeTag)
        \o ArgumentIf("ofs-delta" \in f.given, ArgumentOFSDelta)
        \o ArgumentsOf(ArgumentShallow, CliShallows(f))
        \o ArgumentWith(ArgumentDeepen, CliString(f, "deepen"))
        \o ArgumentIf("deepen-relative" \in f.given, ArgumentDeepenRelative)
        \o ArgumentWith(ArgumentDeepenSince, CliString(f, "deepen-since"))
        \o ArgumentWith(ArgumentDeepenNot, CliString(f, "deepen-not"))
        \o ArgumentWith(ArgumentFilter, CliString(f, "filter"))
        \o ArgumentsOf(ArgumentWantRef, f.wantRefs)
        \o ArgumentWith(ArgumentPackfileURIs, Join(CliPackfileURIs(f), <<",">>))
        \o ArgumentsOf(ArgumentHave, f.have)
        \o ArgumentsOf(ArgumentWant, want)
        \o <<[Key |-> ArgumentDone, Value |-> <<>>]>>]

CliInit ==
    /\ \E f \in CliFlags :
           enc = [pc |-> "start", flags |-> f, want |-> f.want, req |-> ZeroCR,
                  body |-> <<>>, status |-> 0]
    /\ pair = Idle
    /\ msg = Idle
    /\ v = Idle
    /\ buf = <<>>
    /\ lst = Idle
    /\ ref = Idle
    /\ par = Idle
    /\ input = <<>>
    /\ dec = Idle

\* if pflag.NArg() != 1 { pflag.Usage(); os.Exit(1) }
CliUsage ==
    /\ enc.pc = "start"
    /\ enc.flags.narg # 1
    /\ enc' = [enc EXCEPT !.pc = "exit", !.status = 1]
    /\ UNCHANGED <<pair, msg, v, buf, lst, ref, par, input, dec>>

\* if *stdin { ... *want = append(*want, oid) for each key of uniq }
CliStdin ==
    /\ enc.pc = "start"
    /\ enc.flags.narg = 1
    /\ IF "stdin" \in enc.flags.given
       THEN \E o \in RangeOrders(StdinOids(enc.flags.text)) :
                enc' = [enc EXCEPT !.want = @ \o o, !.pc = "check"]
       ELSE enc' = [enc EXCEPT !.pc = "check"]
    /\ UNCHANGED <<pair, msg, v, buf, lst, ref, par, input, dec>>

\* if len(*want) == 0 && len(*wantRefs) == 0 { ...; os.Exit(1) }
CliNoWant ==
    /\ enc.pc = "check"
    /\ Len(enc.want) = 0 /\ Len(enc.flags.wantRefs) = 0
    /\ enc' = [enc EXCEPT !.pc = "exit", !.status = 1]
    /\ UNCHANGED <<pair, msg, v, buf, lst, ref, par, input, dec>>

\* The request is built and posted with req.Bytes() as its body.
CliPost ==
    /\ enc.pc = "check"
    /\ ~(Len(enc.want) = 0 /\ Len(enc.flags.wantRefs) = 0)
    /\ LET req == FetchMainRequest(enc.flags, enc.want)
       IN  enc' = [enc EXCEPT !.req = req,
                              !.body = CommandRequestAppend(<<>>, req),
                              !.pc = "posted"]
    /\ UNCHANGED <<pair, msg, v, buf, lst, ref, par, input, dec>>

CliNext == CliUsage \/ CliStdin \/ CliNoWant \/ CliPost

SpecCli == CliInit /\ [][CliNext]_vars

\* The places of the arguments of the request that have the key.
PlacesOfKey(key) ==
    {i \in 1..Len(enc.req.Arguments) : enc.req.Arguments[i].Key = key}

\* A want or a want-ref was supplied: by a flag, or on the standard input
\* when it is read.
WantSupplied ==
    \/ enc.flags.want # <<>>
    \/ enc.flags.wantRefs # <<>>
    \/ "stdin" \in enc.flags.given /\ enc.flags.text # <<>>

\* C36: in every request the git-v2-fetch program builds the command is
\* "fetch", the first argument is wait-for-done, every have argument comes
\* before every want argument, and the last argument is done, the only one;
\* when neither a want nor a want-ref was supplied no request is built or sent.
C36_RequestOrdering ==
    /\ enc.pc = "posted" =>
          /\ enc.req.Command = FetchCommand
          /\ enc.req.Arguments[1] = [Key |-> ArgumentWaitForDone, Value |-> <<>>]
          /\ \A i \in PlacesOfKey(ArgumentHave), j \in PlacesOfKey(ArgumentWant) :
                 i < j
          /\ enc.req.Arguments[Len(enc.req.Arguments)]
                 = [Key |-> ArgumentDone, Value |-> <<>>]
          /\ PlacesOfKey(ArgumentDone) = {Len(enc.req.Arguments)}
          /\ enc.body = CommandRequestAppend(<<>>, enc.req)
    /\ ~WantSupplied => enc.pc # "posted" /\ enc.req = ZeroCR /\ enc.body = <<>>
    /\ enc.pc # "posted" => enc.req = ZeroCR /\ enc.body = <<>>

\* A request with two haves, a want of the command line and two of the
\* standard input, and every option, was posted.
C36_Witness ==
    /\ enc.pc = "posted"
    /\ enc.flags.given = CliOptions
    /\ enc.flags.have = <<<<"b">>, <<"b">>>>
    /\ enc.want = <<<<"a">>, <<"d">>, <<"c">>>>
    /\ Len(enc.req.Arguments) = 18

====
